---- MODULE Spec2Model ----
(***************************************************************************)
(* Limb socket designer: the zustand store (slices, socket settings,       *)
(* primitives, selection), and the limb geometry pipeline (voxel loft,     *)
(* voxel mesher, smooth mesher entry) that reads the store's slices.       *)
(*                                                                         *)
(* Numbers: world coordinates and heights are fixed-point thousandths      *)
(* (1.0 = 1000), the resolution at which addVoxel rounds heights.          *)
(***************************************************************************)
EXTENDS Integers, Sequences, FiniteSets, TLC

(* ------------------------------ bounds -------------------------------- *)
\* Side of a slice grid (the program draws 20 x 20 grids).
GridSize == 2
\* Largest number of active cells, over all slices, of a limb handed to the meshers.
MaxActive == 2
\* Largest number of active cells, over all slices, the store model lets a user draw.
MaxDrawn == 1
\* Longest primitive list the model builds.
MaxPrims == 2
\* Last value of the millisecond clock Date.now() reads.
MaxTime == 1
MaxPoints == 3
MaxHullPoints == 4

(* ------------------------- program constants -------------------------- *)
\* Fixed-point unit: addVoxel keeps heights to 3 decimal places.
Milli == 1000
\* cellSize argument of the meshers (the viewport passes 1).
CellSize == 1
\* Interpolation steps between two consecutive active slices.
Steps == 10

NULL == "null"
\* null where an id string is expected (ids are modelled as <<type, time>> pairs).
NoId == <<>>

VARIABLES
    slices,                 \* store.slices: sequence of [id, height, grid, label]
    limbVisibility,         \* store.limbVisibility
    inflation,              \* store.inflation, in tenths
    smoothNormals,          \* store.smoothNormals
    socket,                 \* store.socket: NULL or a generated socket mesh
    socketThickness,        \* store.socketThickness, in tenths
    socketUseConvexHull,    \* store.socketUseConvexHull
    primitives,             \* store.primitives: sequence of primitive records
    selectedPrimitiveId,    \* store.selectedPrimitiveId: NoId or an id
    now,                    \* the clock Date.now() reads
    voxelInput,             \* the slices array the last buildOccupiedVoxels call was given
    voxelMap,               \* the skeleton that call built (insertion order)
    limbGeometry,           \* the geometry the last mesher call returned
    utilCall,               \* the last call of a geometry utility: [fn, args, result]
    isDrawing,              \* GridEditor: a stroke is in progress
    drawnPoints,            \* GridEditor: drawnPointsRef.current, the stroke's cells
    lastOp                  \* history: the last store action and what it found

sliceVars == <<slices>>
settingVars == <<limbVisibility, inflation, smoothNormals, socketThickness, socketUseConvexHull>>
primVars == <<primitives, selectedPrimitiveId, now>>
limbVars == <<voxelInput, voxelMap, limbGeometry, utilCall>>
editorVars == <<isDrawing, drawnPoints>>
vars == <<slices, limbVisibility, inflation, smoothNormals, socket, socketThickness,
          socketUseConvexHull, primitives, selectedPrimitiveId, now, voxelInput, voxelMap,
          limbGeometry, utilCall, isDrawing, drawnPoints,
          lastOp>>

Cells == 0 .. (GridSize - 1)

(* ------------------------------ the store ----------------------------- *)
createEmptyGrid == [r \in Cells |-> [c \in Cells |-> FALSE]]

InitialSlices ==
    << [id |-> 0, height |-> Milli, grid |-> createEmptyGrid, label |-> "Top"],
       [id |-> 1, height |-> (3 * Milli) \div 4, grid |-> createEmptyGrid, label |-> "Mid-top"],
       [id |-> 2, height |-> Milli \div 2, grid |-> createEmptyGrid, label |-> "Mid-bottom"],
       [id |-> 3, height |-> Milli \div 4, grid |-> createEmptyGrid, label |-> "Extremity"] >>

\* The mesh a "generate socket" click stores (its content is not needed here).
SocketMesh == "socketMesh"

ActiveCells(grid) == {rc \in Cells \X Cells : grid[rc[1]][rc[2]]}

ActiveCount(ss) ==
    Cardinality({t \in (1 .. Len(ss)) \X Cells \X Cells : ss[t[1]].grid[t[2]][t[3]]})

\* Variant: row and column are taken for each other.
SetCellInGridTransposed(grid, row, col, value) ==
    [i \in Cells |->
        IF i = col
        THEN [j \in Cells |-> IF j = row THEN value ELSE grid[i][j]]
        ELSE grid[i]]

\* slice.grid.map((r, i) => i === row ? r.map((c, j) => j === col ? value : c) : [...r])
SetCellInGrid(grid, row, col, value) ==
    [i \in Cells |->
        IF i = row
        THEN [j \in Cells |-> IF j = col THEN value ELSE grid[i][j]]
        ELSE grid[i]]

SetSliceCellSlices(ss, sliceId, row, col, value) ==
    [k \in 1 .. Len(ss) |->
        IF ss[k].id = sliceId
        THEN [ss[k] EXCEPT !.grid = SetCellInGrid(ss[k].grid, row, col, value)]
        ELSE ss[k]]

ClearSliceSlices(ss, sliceId) ==
    [k \in 1 .. Len(ss) |->
        IF ss[k].id = sliceId
        THEN [ss[k] EXCEPT !.grid = createEmptyGrid]
        ELSE ss[k]]

\* No geometry (null).
NoGeometry == [kind |-> "null", position |-> <<>>, indexed |-> FALSE, index |-> <<>>]

\* No utility called yet.
NoCall == [fn |-> "none", args |-> <<>>, result |-> <<>>]

\* What a store action leaves in the history variable: its name, and the value it
\* overwrote when it writes the socket (hadSocket) or the selection (prevSelected).
Did(op) == [op |-> op, hadSocket |-> FALSE, prevSelected |-> NoId]
DidToSocket(op) == [op |-> op, hadSocket |-> socket # NULL, prevSelected |-> NoId]
DidToSelection(op) == [op |-> op, hadSocket |-> FALSE, prevSelected |-> selectedPrimitiveId]

Init ==
    /\ slices = InitialSlices
    /\ limbVisibility = "voxel"
    /\ inflation = 0
    /\ smoothNormals = TRUE
    /\ socket = NULL
    /\ socketThickness = 5
    /\ socketUseConvexHull = TRUE
    /\ primitives = <<>>
    /\ selectedPrimitiveId = NoId
    /\ now = 0
    /\ voxelInput = <<>>
    /\ voxelMap = <<>>
    /\ limbGeometry = NoGeometry
    /\ utilCall = NoCall
    /\ isDrawing = FALSE
    /\ drawnPoints = <<>>
    /\ lastOp = [op |-> "init", hadSocket |-> FALSE, prevSelected |-> NoId]

(* --------------------------- slices and socket ------------------------- *)
\* Variant: the grid edit that leaves the socket as it was.
SetSliceCellKeepingSocket(sliceId, row, col, value) ==
    /\ ActiveCount(SetSliceCellSlices(slices, sliceId, row, col, value)) <= MaxDrawn
    /\ slices' = SetSliceCellSlices(slices, sliceId, row, col, value)
    /\ lastOp' = DidToSocket("setSliceCell")
    /\ UNCHANGED <<editorVars, settingVars, primVars, limbVars, socket>>

SetSliceCell(sliceId, row, col, value) ==
    /\ ActiveCount(SetSliceCellSlices(slices, sliceId, row, col, value)) <= MaxDrawn
    /\ slices' = SetSliceCellSlices(slices, sliceId, row, col, value)
    /\ socket' = NULL
    /\ lastOp' = DidToSocket("setSliceCell")
    /\ UNCHANGED <<editorVars, settingVars, primVars, limbVars>>

ClearSlice(sliceId) ==
    /\ slices' = ClearSliceSlices(slices, sliceId)
    /\ socket' = NULL
    /\ lastOp' = DidToSocket("clearSlice")
    /\ UNCHANGED <<editorVars, settingVars, primVars, limbVars>>

SetSocket(geometry) ==
    /\ socket' = geometry
    /\ lastOp' = DidToSocket("setSocket")
    /\ UNCHANGED <<editorVars, sliceVars, settingVars, primVars, limbVars>>

ClearSocket ==
    /\ socket' = NULL
    /\ lastOp' = DidToSocket("clearSocket")
    /\ UNCHANGED <<editorVars, sliceVars, settingVars, primVars, limbVars>>

(* ------------------------------ settings ------------------------------ *)
SetLimbVisibility(visibility) ==
    /\ limbVisibility' = visibility
    /\ lastOp' = Did("setLimbVisibility")
    /\ UNCHANGED <<editorVars, sliceVars, primVars, limbVars, socket, inflation, smoothNormals,
                   socketThickness, socketUseConvexHull>>

SetInflation(value) ==
    /\ inflation' = value
    /\ lastOp' = Did("setInflation")
    /\ UNCHANGED <<editorVars, sliceVars, primVars, limbVars, socket, limbVisibility, smoothNormals,
                   socketThickness, socketUseConvexHull>>

SetSmoothNormals(value) ==
    /\ smoothNormals' = value
    /\ lastOp' = Did("setSmoothNormals")
    /\ UNCHANGED <<editorVars, sliceVars, primVars, limbVars, socket, limbVisibility, inflation,
                   socketThickness, socketUseConvexHull>>

SetSocketThickness(value) ==
    /\ socketThickness' = value
    /\ lastOp' = Did("setSocketThickness")
    /\ UNCHANGED <<editorVars, sliceVars, primVars, limbVars, socket, limbVisibility, inflation,
                   smoothNormals, socketUseConvexHull>>

SetSocketUseConvexHull(value) ==
    /\ socketUseConvexHull' = value
    /\ lastOp' = Did("setSocketUseConvexHull")
    /\ UNCHANGED <<editorVars, sliceVars, primVars, limbVars, socket, limbVisibility, inflation,
                   smoothNormals, socketThickness>>

(* ----------------------------- primitives ----------------------------- *)
\* The shapes the model adds: two of the control panel's three buttons (the type
\* only enters the id and the record; "cylinder" behaves as the other two).
PrimitiveTypes == {"sphere", "cube"}
Operations == {"union", "subtract", "intersect"}

\* `${type}-${Date.now()}`: the string is determined by, and determines, the pair.
PrimitiveId(type, time) == <<type, time>>

NewPrimitive(type, time) ==
    [id |-> PrimitiveId(type, time), type |-> type, position |-> <<0, 0, 0>>,
     scale |-> <<Milli, Milli, Milli>>, operation |-> "union"]

\* { ...p, ...updates }
Merge(p, updates) ==
    [f \in DOMAIN p |-> IF f \in DOMAIN updates THEN updates[f] ELSE p[f]]


\* Variant: the new primitive goes to the front of the list.
AddPrimitiveListFront(ps, type, time) == <<NewPrimitive(type, time)>> \o ps

AddPrimitiveList(ps, type, time) == Append(ps, NewPrimitive(type, time))

\* Variant: adding leaves the selection as it was.
AddPrimitiveSelectionKept(sel, type, time) == sel

AddPrimitiveSelection(sel, type, time) == NewPrimitive(type, time).id

UpdatePrimitiveList(ps, id, updates) ==
    [k \in 1 .. Len(ps) |-> IF ps[k].id = id THEN Merge(ps[k], updates) ELSE ps[k]]

DeletePrimitiveList(ps, id) ==
    LET Keep(p) == p.id # id IN SelectSeq(ps, Keep)

\* Variant: deleting leaves the selection as it was.
DeletePrimitiveSelectionKept(sel, id) == sel

DeletePrimitiveSelection(sel, id) == IF sel = id THEN NoId ELSE sel

\* The clock advances between two store calls.
Tick ==
    /\ now < MaxTime
    /\ now' = now + 1
    /\ UNCHANGED <<editorVars, sliceVars, settingVars, limbVars, socket, primitives, selectedPrimitiveId, lastOp>>

AddPrimitive(type) ==
    /\ Len(primitives) < MaxPrims
    /\ primitives' = AddPrimitiveList(primitives, type, now)
    /\ selectedPrimitiveId' = AddPrimitiveSelection(selectedPrimitiveId, type, now)
    /\ lastOp' = DidToSelection("addPrimitive")
    /\ UNCHANGED <<editorVars, sliceVars, settingVars, limbVars, socket, now>>

UpdatePrimitive(id, updates) ==
    /\ primitives' = UpdatePrimitiveList(primitives, id, updates)
    /\ lastOp' = Did("updatePrimitive")
    /\ UNCHANGED <<editorVars, sliceVars, settingVars, limbVars, socket, selectedPrimitiveId, now>>

DeletePrimitive(id) ==
    /\ primitives' = DeletePrimitiveList(primitives, id)
    /\ selectedPrimitiveId' = DeletePrimitiveSelection(selectedPrimitiveId, id)
    /\ lastOp' = DidToSelection("deletePrimitive")
    /\ UNCHANGED <<editorVars, sliceVars, settingVars, limbVars, socket, now>>

SetSelectedPrimitive(id) ==
    /\ selectedPrimitiveId' = id
    /\ lastOp' = DidToSelection("setSelectedPrimitive")
    /\ UNCHANGED <<editorVars, sliceVars, settingVars, limbVars, socket, primitives, now>>

(* --------------------------- limb geometry ---------------------------- *)
\* The same sequence, evaluated once (a function constructor is otherwise
\* re-evaluated at every application).
Eager(s) == SubSeq(s, 1, Len(s))

\* The sequences of a sequence of sequences of length n each, one after the other.
Flatten(ss, n) ==
    LET parts == Eager(ss)
    IN  Eager([i \in 1 .. Len(parts) * n |-> parts[((i - 1) \div n) + 1][((i - 1) % n) + 1]])

\* Math.round(n / d) for d > 0: the nearest integer, halves towards +Infinity.
RoundHalfUp(n, d) == (2 * n + d) \div (2 * d)

\* lerp(a, b, t) = a + (b - a) * t at t = step / Steps, returned times Steps.
lerp(a, b, step) == a * Steps + (b - a) * step

\* grid[row]?.[col]
GridAt(grid, row, col) ==
    /\ row \in DOMAIN grid
    /\ col \in DOMAIN grid[row]
    /\ grid[row][col]

\* The cells of a gridSize x gridSize scan in row-major order.
ScanOrder(gridSize) ==
    [i \in 1 .. gridSize * gridSize |->
        [row |-> (i - 1) \div gridSize, col |-> (i - 1) % gridSize]]

collectActiveCells(grid, gridSize) ==
    LET Active(cell) == GridAt(grid, cell.row, cell.col)
    IN  SelectSeq(ScanOrder(gridSize), Active)

SquaredDistance(a, b) ==
    (a.row - b.row) * (a.row - b.row) + (a.col - b.col) * (a.col - b.col)

\* null where a cell is expected.
NoCell == [row |-> -1, col |-> -1]

\* The first cell of targetCells at the least distance (the scan replaces closest
\* only on a strictly smaller distance); null for no target.
findClosestCell(cell, targetCells) ==
    IF Len(targetCells) = 0 THEN NoCell
    ELSE LET dist == Eager([i \in 1 .. Len(targetCells) |->
                               SquaredDistance(cell, targetCells[i])])
             best == CHOOSE i \in 1 .. Len(targetCells) :
                        /\ \A j \in 1 .. Len(targetCells) : dist[i] <= dist[j]
                        /\ \A j \in 1 .. (i - 1) : dist[i] < dist[j]
         IN  targetCells[best]

\* Variant: no sort, the slices in the order given.
SortByHeightAsGiven(ss) == ss

\* [...slices].sort((a, b) => b.height - a.height): stable, descending. The place
\* of ss[i]: after the higher slices and the earlier slices of its height.
SortedPlace(ss, i) ==
    1 + Cardinality({j \in 1 .. Len(ss) : ss[j].height > ss[i].height})
      + Cardinality({j \in 1 .. (i - 1) : ss[j].height = ss[i].height})

SortByHeight(ss) ==
    Eager([k \in 1 .. Len(ss) |-> ss[CHOOSE i \in 1 .. Len(ss) : SortedPlace(ss, i) = k]])

\* Variant: content looked for in the first row only.
HasContentFirstRow(slice) == \E c \in DOMAIN slice.grid[0] : slice.grid[0][c]

\* slice.grid.some((row) => row.some((cell) => cell))
HasContent(slice) ==
    \E r \in DOMAIN slice.grid : \E c \in DOMAIN slice.grid[r] : slice.grid[r][c]

SlicesWithContent(ss) == SelectSeq(SortByHeight(ss), HasContent)

\* The arguments of one addVoxel call: row and col times Steps, y in thousandths
\* times Steps.
VoxelCall(row, col, y) == [row |-> row, col |-> col, y |-> y]

\* Variant: only the first active cell of the slice is added.
SingleLayerCallsFirstOnly(cells, y) ==
    IF Len(cells) = 0 THEN <<>>
    ELSE << VoxelCall(cells[1].row * Steps, cells[1].col * Steps, y * Steps) >>

\* Case 1: addVoxel(row, col, y) for every active cell of the only slice with content.
SingleLayerCalls(cells, y) ==
    Eager([i \in 1 .. Len(cells) |->
              VoxelCall(cells[i].row * Steps, cells[i].col * Steps, y * Steps)])

\* for (let step = 0; step <= steps; step++) addVoxel(lerp row, lerp col, lerp y)
InterpolateCalls(cell1, cell2, height1, height2) ==
    [k \in 1 .. (Steps + 1) |->
        VoxelCall(lerp(cell1.row, cell2.row, k - 1), lerp(cell1.col, cell2.col, k - 1),
                  lerp(height1, height2, k - 1))]

\* From top to bottom: each cell of the upper slice towards its closest lower cell
\* (no call when there is none: if (!cell2) continue).
TopToBottomCalls(cells1, cells2, height1, height2) ==
    IF Len(cells2) = 0 THEN <<>>
    ELSE Flatten([i \in 1 .. Len(cells1) |->
                     InterpolateCalls(cells1[i], findClosestCell(cells1[i], cells2),
                                      height1, height2)],
                 Steps + 1)

\* Variant: no pass from bottom to top.
BottomToTopCallsNone(cells1, cells2, height1, height2) == <<>>

\* From bottom to top: each cell of the lower slice from its closest upper cell.
BottomToTopCalls(cells1, cells2, height1, height2) ==
    IF Len(cells1) = 0 THEN <<>>
    ELSE Flatten([i \in 1 .. Len(cells2) |->
                     InterpolateCalls(findClosestCell(cells2[i], cells1), cells2[i],
                                      height1, height2)],
                 Steps + 1)

PairCalls(slice1, slice2, gridSize, heightScale) ==
    LET cells1 == collectActiveCells(slice1.grid, gridSize)
        cells2 == collectActiveCells(slice2.grid, gridSize)
        height1 == slice1.height * heightScale
        height2 == slice2.height * heightScale
    IN  TopToBottomCalls(cells1, cells2, height1, height2)
            \o BottomToTopCalls(cells1, cells2, height1, height2)

\* Case 2: every pair of consecutive slices with content, from pair s on.
RECURSIVE LoftCalls(_, _, _, _)
LoftCalls(content, s, gridSize, heightScale) ==
    IF s > Len(content) - 1 THEN <<>>
    ELSE PairCalls(content[s], content[s + 1], gridSize, heightScale)
            \o LoftCalls(content, s + 1, gridSize, heightScale)

\* The addVoxel calls buildOccupiedVoxels makes, in order.
AddVoxelCalls(ss, gridSize, heightScale) ==
    LET content == SlicesWithContent(ss)
    IN  IF Len(content) = 0 THEN <<>>
        ELSE IF Len(content) = 1
        THEN SingleLayerCalls(collectActiveCells(content[1].grid, gridSize),
                              content[1].height * heightScale)
        ELSE LoftCalls(content, 1, gridSize, heightScale)

\* The voxel addVoxel files a call under: row and col rounded to integers, y to
\* thousandths. The Map key is the string of these three numbers.
VoxelOf(call) ==
    [row |-> RoundHalfUp(call.row, Steps), col |-> RoundHalfUp(call.col, Steps),
     y |-> RoundHalfUp(call.y, Steps)]

\* Variant: every call inserts, whether its key is present or not.
addVoxelInsertsAlways(voxels, i) == TRUE

\* Whether the i-th call finds its key absent: if (!voxelMap.has(key)) voxelMap.set(...)
addVoxelInserts(voxels, i) == \A j \in 1 .. (i - 1) : voxels[j] # voxels[i]

\* The values of the voxel Map after the calls, in insertion order.
VoxelMapAfter(calls) ==
    LET voxels == Eager([i \in 1 .. Len(calls) |-> VoxelOf(calls[i])])
        Inserted(i) == addVoxelInserts(voxels, i)
        kept == SelectSeq([i \in 1 .. Len(calls) |-> i], Inserted)
    IN  Eager([k \in 1 .. Len(kept) |-> voxels[kept[k]]])

buildOccupiedVoxels(ss, gridSize, heightScale) ==
    VoxelMapAfter(AddVoxelCalls(ss, gridSize, heightScale))

\* A THREE.BufferGeometry: its position attribute and, when set, its index.
BufferGeometry(position, indexed, index) ==
    [kind |-> "BufferGeometry", position |-> position, indexed |-> indexed, index |-> index]

\* The single vertex at the origin, no index: the "empty" limb.
EmptyGeometry == BufferGeometry(<< <<0, 0, 0>> >>, FALSE, <<>>)

\* Triangles a geometry draws: index.count / 3, or position.count / 3 without index.
TriangleCount(g) == IF g.indexed THEN Len(g.index) \div 3 ELSE Len(g.position) \div 3

\* The 8 corners createCube pushes, in thousandths.
CubeVertices(cx, cy, cz, hs) ==
    << <<cx - hs, cy - hs, cz - hs>>, <<cx + hs, cy - hs, cz - hs>>,
       <<cx + hs, cy + hs, cz - hs>>, <<cx - hs, cy + hs, cz - hs>>,
       <<cx - hs, cy - hs, cz + hs>>, <<cx + hs, cy - hs, cz + hs>>,
       <<cx + hs, cy + hs, cz + hs>>, <<cx - hs, cy + hs, cz + hs>> >>

\* The 12 triangles createCube pushes, as offsets from baseIndex.
CubeFaces ==
    << <<0, 1, 2>>, <<0, 2, 3>>, <<4, 6, 5>>, <<4, 7, 6>>, <<3, 2, 6>>, <<3, 6, 7>>,
       <<0, 5, 1>>, <<0, 4, 5>>, <<1, 5, 6>>, <<1, 6, 2>>, <<4, 0, 3>>, <<4, 3, 7>> >>

CubeIndices(baseIndex) ==
    [i \in 1 .. 3 * Len(CubeFaces) |->
        baseIndex + CubeFaces[((i - 1) \div 3) + 1][((i - 1) % 3) + 1]]

\* What one createCube call appends to vertices and to indices.
createCube(vertexIndex, cx, cy, cz, hs) ==
    [vertices |-> CubeVertices(cx, cy, cz, hs), indices |-> CubeIndices(vertexIndex)]

\* The cube of the i-th voxel: createCube(vertices, indices, vertexIndex, cx, voxel.y,
\* cz, hs) with vertexIndex = 8 * (i - 1).
VoxelCube(voxel, i, gridSize, cellSize) ==
    createCube(8 * (i - 1),
               ((2 * voxel.col - gridSize) * cellSize * Milli) \div 4,
               voxel.y,
               ((2 * voxel.row - gridSize) * cellSize * Milli) \div 4,
               (cellSize * Milli) \div 4)

\* generateLimbGeometry from the skeleton on: the sentinel for an empty skeleton, else
\* one cube per voxel of the Map, the index set when indices were pushed.
VoxelMesh(voxels, gridSize, cellSize) ==
    LET cubes == Eager([i \in 1 .. Len(voxels) |->
                           VoxelCube(voxels[i], i, gridSize, cellSize)])
        vertices == Flatten([i \in 1 .. Len(voxels) |-> cubes[i].vertices], 8)
        indices == Flatten([i \in 1 .. Len(voxels) |-> cubes[i].indices], 3 * Len(CubeFaces))
    IN  IF Len(voxels) = 0 THEN EmptyGeometry
        ELSE BufferGeometry(vertices, Len(indices) > 0, indices)

generateLimbGeometry(ss, gridSize, cellSize) ==
    VoxelMesh(buildOccupiedVoxels(ss, gridSize, gridSize * cellSize), gridSize, cellSize)

\* A surface three's MarchingCubes extracted from a non-empty skeleton: library
\* output, of which only the kind is kept.
IsoSurface == [kind |-> "MarchingCubes", position |-> <<>>, indexed |-> FALSE, index |-> <<>>]

\* Variant: no sentinel for the empty skeleton, the extraction runs on it too.
SmoothMeshesNoSentinel(voxels) == {IsoSurface, EmptyGeometry}

\* What generateLimbGeometrySmooth can return from the skeleton on: the sentinel for
\* an empty skeleton; else the extracted surface, or the sentinel again when the
\* extraction left no position attribute (which of the two is the library's doing).
SmoothMeshes(voxels) ==
    IF Len(voxels) = 0 THEN {EmptyGeometry} ELSE {IsoSurface, EmptyGeometry}

generateLimbGeometrySmooth(ss, gridSize, cellSize) ==
    SmoothMeshes(buildOccupiedVoxels(ss, gridSize, gridSize * cellSize))

\* One call of the voxel mesher on the store's slices, as the viewport makes it;
\* voxelMap keeps the skeleton the call built.
CallGenerateLimbGeometry ==
    /\ lastOp.op = "init"
    /\ voxelInput' = slices
    /\ voxelMap' = buildOccupiedVoxels(slices, GridSize, GridSize * CellSize)
    /\ limbGeometry' = VoxelMesh(voxelMap', GridSize, CellSize)
    /\ lastOp' = Did("generateLimbGeometry")
    /\ UNCHANGED <<editorVars, sliceVars, settingVars, primVars, socket, utilCall>>

\* One call of the smooth mesher on the store's slices.
CallGenerateLimbGeometrySmooth ==
    /\ lastOp.op = "init"
    /\ voxelInput' = slices
    /\ voxelMap' = buildOccupiedVoxels(slices, GridSize, GridSize * CellSize)
    /\ limbGeometry' \in SmoothMeshes(voxelMap')
    /\ lastOp' = Did("generateLimbGeometrySmooth")
    /\ UNCHANGED <<editorVars, sliceVars, settingVars, primVars, socket, utilCall>>

(* --------------------------- socket geometry -------------------------- *)
\* Vectors are <<x, y, z>> in thousandths; a unit vector has length Milli.
Abs(n) == IF n < 0 THEN -n ELSE n

RECURSIVE SqrtBetween(_, _, _)
SqrtBetween(n, lo, hi) ==
    IF lo >= hi THEN lo
    ELSE LET mid == (lo + hi + 1) \div 2
         IN  IF mid * mid <= n THEN SqrtBetween(n, mid, hi) ELSE SqrtBetween(n, lo, mid - 1)

\* Math.sqrt(n), rounded to the nearest integer (for n up to (4 * Milli)^2: lengths
\* up to 4.0).
Sqrt(n) ==
    LET floor == SqrtBetween(n, 0, IF n < 4 * Milli THEN n ELSE 4 * Milli)
    IN  IF n - floor * floor > floor THEN floor + 1 ELSE floor

subVectors(a, b) == <<a[1] - b[1], a[2] - b[2], a[3] - b[3]>>
addVectors(a, b) == <<a[1] + b[1], a[2] + b[2], a[3] + b[3]>>

\* Vector3.length()
LengthOf(v) == Sqrt(v[1] * v[1] + v[2] * v[2] + v[3] * v[3])

\* Vector3.divideScalar(n), n a count
divideScalar(v, n) == <<RoundHalfUp(v[1], n), RoundHalfUp(v[2], n), RoundHalfUp(v[3], n)>>

\* Vector3.multiplyScalar(s), s in thousandths
multiplyScalar(v, s) ==
    <<RoundHalfUp(v[1] * s, Milli), RoundHalfUp(v[2] * s, Milli), RoundHalfUp(v[3] * s, Milli)>>

\* Vector3.normalize(): divideScalar(length() || 1); the zero vector stays zero.
normalize(v) ==
    LET len == LengthOf(v)
    IN  IF len = 0 THEN v
        ELSE <<RoundHalfUp(v[1] * Milli, len), RoundHalfUp(v[2] * Milli, len),
               RoundHalfUp(v[3] * Milli, len)>>

\* The points of a geometry's position attribute.
extractPointsFromGeometry(geometry) == geometry.position

RECURSIVE SumOf(_, _)
SumOf(points, n) == IF n = 0 THEN <<0, 0, 0>> ELSE addVectors(SumOf(points, n - 1), points[n])

\* The centroid expandPoints computes.
Centroid(points) == divideScalar(SumOf(points, Len(points)), Len(points))

\* Variant: a point is moved away from the origin instead of the centroid.
expandPointsFromOrigin(points, amount) ==
    [i \in 1 .. Len(points) |->
        addVectors(points[i], multiplyScalar(normalize(points[i]), amount))]

\* Each point moved by amount along the direction from the centroid to it.
expandPoints(points, amount) ==
    LET centroid == Centroid(points)
    IN  Eager([i \in 1 .. Len(points) |->
                  LET dir == normalize(subVectors(points[i], centroid))
                  IN  addVectors(points[i], multiplyScalar(dir, amount))])

\* Math.max over the y of the vertices (this model never calls it on no vertex).
findTopY(geometry) ==
    LET ys == {geometry.position[i][2] : i \in 1 .. Len(geometry.position)}
    IN  CHOOSE y \in ys : \A other \in ys : other <= y

\* geometry.boundingBox of a vertex list.
getBoundingBox(vertices) ==
    LET Coord(axis) == {vertices[i][axis] : i \in 1 .. Len(vertices)}
        Least(S) == CHOOSE m \in S : \A other \in S : m <= other
        Most(S) == CHOOSE m \in S : \A other \in S : other <= m
    IN  [min |-> <<Least(Coord(1)), Least(Coord(2)), Least(Coord(3))>>,
         max |-> <<Most(Coord(1)), Most(Coord(2)), Most(Coord(3))>>]

\* A solid is known by its section in the plane z = 0: the set of the points of the
\* lattice of step Grain (samples) in that plane that it contains. The limb meshes
\* of this model mirror themselves in that plane, so that the section of a hull is
\* the hull of the vertices' (x, y).
Grain == Milli \div 10
SampleSteps == -2 .. 4
Samples == {<<gx * Grain, gy * Grain, 0>> : gx \in SampleSteps, gy \in SampleSteps}

\* (b - a) x (q - a) in the plane z = 0.
Cross(a, b, q) == (b[1] - a[1]) * (q[2] - a[2]) - (b[2] - a[2]) * (q[1] - a[1])

\* new ConvexGeometry(points): the hull's vertices are among the points; its section
\* is the samples no edge of the hull of the (x, y) separates from the points.
ConvexGeometry(points) ==
    LET n == Len(points)
        box == getBoundingBox(points)
        edges == {e \in (1 .. n) \X (1 .. n) :
                     /\ points[e[1]] # points[e[2]]
                     /\ \A k \in 1 .. n : Cross(points[e[1]], points[e[2]], points[k]) >= 0}
        Inside(q) ==
            /\ \A axis \in 1 .. 3 : box.min[axis] <= q[axis] /\ q[axis] <= box.max[axis]
            /\ \A e \in edges : Cross(points[e[1]], points[e[2]], q) >= 0
    IN  [vertices |-> points, cells |-> {q \in Samples : Inside(q)}]

\* limbGeometry.clone() as a solid: what the faces of the mesh enclose. The limb
\* meshes of this model are closed and convex, their faces enclose their hull.
CloneGeometry(geometry) ==
    [vertices |-> geometry.position, cells |-> ConvexGeometry(geometry.position).cells]

\* new THREE.BoxGeometry(w, h, d) in a mesh whose position is half of twicePosition.
BoxCells(size, twicePosition) ==
    {q \in Samples : \A axis \in 1 .. 3 : Abs(2 * q[axis] - twicePosition[axis]) <= size[axis]}

\* The solid of createPrimitiveMesh(primitive): a sphere of radius 0.5, a box of
\* side 1 or a cylinder of radius 0.5 and height 1 (a box for any other type),
\* scaled by primitive.scale at primitive.position. Offsets and scales are taken
\* in lattice steps.
createPrimitiveMesh(primitive) ==
    LET Off(q, axis) == (q[axis] - primitive.position[axis]) \div Grain
        sc == [axis \in 1 .. 3 |-> primitive.scale[axis] \div Grain]
        InSphere(q) ==
            4 * ( Off(q, 1) * Off(q, 1) * sc[2] * sc[2] * sc[3] * sc[3]
                + Off(q, 2) * Off(q, 2) * sc[1] * sc[1] * sc[3] * sc[3]
                + Off(q, 3) * Off(q, 3) * sc[1] * sc[1] * sc[2] * sc[2] )
              <= sc[1] * sc[1] * sc[2] * sc[2] * sc[3] * sc[3]
        InCylinder(q) ==
            /\ 4 * ( Off(q, 1) * Off(q, 1) * sc[3] * sc[3]
                   + Off(q, 3) * Off(q, 3) * sc[1] * sc[1] ) <= sc[1] * sc[1] * sc[3] * sc[3]
            /\ 2 * Abs(q[2] - primitive.position[2]) <= primitive.scale[2]
    IN  IF primitive.type = "sphere" THEN {q \in Samples : InSphere(q)}
        ELSE IF primitive.type = "cylinder" THEN {q \in Samples : InCylinder(q)}
        ELSE BoxCells(primitive.scale,
                      [axis \in 1 .. 3 |-> 2 * primitive.position[axis]])

\* three-csg-ts on solids.
CSGUnion(a, b) == a \cup b
CSGSubtract(a, b) == a \ b
CSGIntersect(a, b) == a \cap b

\* cutOffset = 0.05
CutOffset == 50

\* The box generateSocket cuts the top with: cutBoxSize wide and deep, cutBoxHeight
\* high, its bottom at topY - cutOffset, centred on the outer hull's bounding box.
CutBoxCells(topY, bbox) ==
    LET sizeX == bbox.max[1] - bbox.min[1]
        sizeY == bbox.max[2] - bbox.min[2]
        sizeZ == bbox.max[3] - bbox.min[3]
        cutBoxSize == (IF sizeX > sizeZ THEN sizeX ELSE sizeZ) * 3
        cutBoxHeight == IF sizeY > 10 * Milli THEN sizeY ELSE 10 * Milli
    IN  BoxCells(<<cutBoxSize, cutBoxHeight, cutBoxSize>>,
                 <<bbox.min[1] + bbox.max[1],
                   2 * topY + cutBoxHeight - 2 * CutOffset,
                   bbox.min[3] + bbox.max[3]>>)

\* What generateSocket hands back: null, a geometry (its solid), or an exception of
\* a library call it does not catch; with the warnings it logged and the library
\* calls it made.
SocketNull(warnings) == [outcome |-> "null", cells |-> {}, warnings |-> warnings, steps |-> <<>>]
SocketThrows(steps) == [outcome |-> "throws", cells |-> {}, warnings |-> <<>>, steps |-> steps]

\* Variant: the primitives are applied last to first.
RECURSIVE ApplyPrimitivesReversed(_, _, _, _)
ApplyPrimitivesReversed(cells, prims, n, throwing) ==
    IF n = 0 THEN [cells |-> cells, warnings |-> <<>>, steps |-> <<>>]
    ELSE LET before == ApplyPrimitivesReversed(cells, prims, n - 1, throwing)
             primitive == prims[Len(prims) + 1 - n]
             primCells == createPrimitiveMesh(primitive)
         IN  [before EXCEPT
                 !.cells = IF primitive.operation = "union" THEN CSGUnion(@, primCells)
                           ELSE IF primitive.operation = "subtract" THEN CSGSubtract(@, primCells)
                           ELSE CSGIntersect(@, primCells)]

\* Variant: a primitive whose operation throws empties the running shell.
RECURSIVE ApplyPrimitivesDropping(_, _, _, _)
ApplyPrimitivesDropping(cells, prims, n, throwing) ==
    IF n = 0 THEN [cells |-> cells, warnings |-> <<>>, steps |-> <<>>]
    ELSE LET before == ApplyPrimitivesDropping(cells, prims, n - 1, throwing)
             primitive == prims[n]
             primCells == createPrimitiveMesh(primitive)
         IN  IF <<"primitive", n>> \in throwing THEN [before EXCEPT !.cells = {}]
             ELSE [before EXCEPT
                     !.cells = IF primitive.operation = "union" THEN CSGUnion(@, primCells)
                               ELSE IF primitive.operation = "subtract"
                                    THEN CSGSubtract(@, primCells)
                               ELSE CSGIntersect(@, primCells)]

\* Variant: an operation the switch does not know falls into its last case.
RECURSIVE ApplyPrimitivesLastCase(_, _, _, _)
ApplyPrimitivesLastCase(cells, prims, n, throwing) ==
    IF n = 0 THEN [cells |-> cells, warnings |-> <<>>, steps |-> <<>>]
    ELSE LET before == ApplyPrimitivesLastCase(cells, prims, n - 1, throwing)
             primitive == prims[n]
             primCells == createPrimitiveMesh(primitive)
         IN  IF <<"primitive", n>> \in throwing
             THEN [before EXCEPT
                      !.warnings = Append(@, <<"CSG operation failed for primitive",
                                               primitive.id>>)]
             ELSE [before EXCEPT
                      !.cells = IF primitive.operation = "union" THEN CSGUnion(@, primCells)
                                ELSE IF primitive.operation = "subtract"
                                     THEN CSGSubtract(@, primCells)
                                ELSE CSGIntersect(@, primCells)]

\* Step 7, the first n primitives: each operation on the running shell, in list
\* order; an operation that throws is caught, logged, and leaves the shell as it was;
\* an operation the switch does not know does nothing.
RECURSIVE ApplyPrimitives(_, _, _, _)
ApplyPrimitives(cells, prims, n, throwing) ==
    IF n = 0 THEN [cells |-> cells, warnings |-> <<>>, steps |-> <<>>]
    ELSE LET before == ApplyPrimitives(cells, prims, n - 1, throwing)
             primitive == prims[n]
             primCells == createPrimitiveMesh(primitive)
             opCall == IF primitive.operation = "union" THEN "CSG.union"
                       ELSE IF primitive.operation = "subtract" THEN "CSG.subtract"
                       ELSE "CSG.intersect"
         IN  IF primitive.operation \notin {"union", "subtract", "intersect"} THEN before
             ELSE IF <<"primitive", n>> \in throwing
             THEN [before EXCEPT
                      !.warnings = Append(@, <<"CSG operation failed for primitive",
                                               primitive.id>>),
                      !.steps = Append(@, opCall)]
             ELSE [before EXCEPT
                      !.cells = IF primitive.operation = "union" THEN CSGUnion(@, primCells)
                                ELSE IF primitive.operation = "subtract"
                                     THEN CSGSubtract(@, primCells)
                                ELSE CSGIntersect(@, primCells),
                      !.steps = Append(@, opCall)]

\* Variant: one point is enough.
MinHullPointsOne == 4 - 3

\* points.length < 4
MinHullPoints == 4

\* generateSocket(limbGeometry, thickness, useConvexHull, primitives); throwing is
\* the set of its library calls that throw: <<"inner", 0>> and <<"outer", 0>> the
\* two hulls, <<"shell", 0>> the inner-from-outer subtraction, <<"cut", 0>> the top
\* cut, <<"primitive", n>> the operation of the n-th primitive.
generateSocket(limb, thickness, useConvexHull, prims, throwing) ==
    IF limb.kind = "null" THEN SocketNull(<<>>)
    ELSE
    LET points == extractPointsFromGeometry(limb)
        hullCalls == IF useConvexHull THEN <<"ConvexGeometry">> ELSE <<>>
        innerGeometry == IF useConvexHull THEN ConvexGeometry(points) ELSE CloneGeometry(limb)
        outerPoints == expandPoints(points, thickness)
        outerGeometry == ConvexGeometry(outerPoints)
        shell == CSGSubtract(outerGeometry.cells, innerGeometry.cells)
        topY == findTopY(limb)
        bbox == getBoundingBox(outerGeometry.vertices)
        cutShell == CSGSubtract(shell, CutBoxCells(topY, bbox))
        final == ApplyPrimitives(cutShell, prims, Len(prims), throwing)
    IN  IF Len(points) < MinHullPoints
        THEN SocketNull(<< <<"Not enough points to generate socket", NoId>> >>)
        ELSE IF useConvexHull /\ <<"inner", 0>> \in throwing
        THEN SocketThrows(hullCalls)
        ELSE IF <<"outer", 0>> \in throwing
        THEN SocketThrows(hullCalls \o <<"ConvexGeometry">>)
        ELSE IF <<"shell", 0>> \in throwing
        THEN SocketThrows(hullCalls \o <<"ConvexGeometry", "CSG.subtract">>)
        ELSE IF <<"cut", 0>> \in throwing
        THEN SocketThrows(hullCalls \o <<"ConvexGeometry", "CSG.subtract", "CSG.subtract">>)
        ELSE [outcome |-> "geometry",
              cells |-> final.cells,
              warnings |-> final.warnings,
              steps |-> hullCalls \o <<"ConvexGeometry", "CSG.subtract", "CSG.subtract">>
                            \o final.steps]

\* One call of generateSocket on the limb mesh and the store's socket settings and
\* primitives (the store keeps the thickness in tenths).
CallGenerateSocket(throwing) ==
    /\ lastOp.op = "init"
    /\ utilCall' = [fn |-> "generateSocket",
                    args |-> [throwing |-> throwing],
                    result |-> generateSocket(limbGeometry, socketThickness * Grain,
                                              socketUseConvexHull, primitives, throwing)]
    /\ lastOp' = Did("generateSocket")
    /\ UNCHANGED <<editorVars, sliceVars, settingVars, primVars, socket, voxelInput, voxelMap, limbGeometry>>

\* One call of expandPoints.
CallExpandPoints(points, amount) ==
    /\ lastOp.op = "init"
    /\ utilCall' = [fn |-> "expandPoints",
                    args |-> [points |-> points, amount |-> amount],
                    result |-> expandPoints(points, amount)]
    /\ lastOp' = Did("expandPoints")
    /\ UNCHANGED <<editorVars, sliceVars, settingVars, primVars, socket, voxelInput, voxelMap, limbGeometry>>

(* --------------------------- marching cubes --------------------------- *)
\* MARCHING_CUBES_TABLE as the file has it: entry cubeIndex + 1 is the list of the
\* triangles of configuration cubeIndex, each a triple of edge numbers 0 to 11.
MARCHING_CUBES_TABLE ==
    << <<>>, <<<<0, 8, 3>>>>, <<<<0, 1, 9>>>>, <<<<1, 8, 3>>, <<9, 8, 1>>>>, <<<<1, 2, 10>>>>,
       <<<<0, 8, 3>>, <<1, 2, 10>>>>, <<<<9, 2, 10>>, <<0, 2, 9>>>>,
       <<<<2, 8, 3>>, <<2, 10, 8>>, <<10, 9, 8>>>>, <<<<3, 11, 2>>>>,
       <<<<0, 11, 2>>, <<8, 11, 0>>>>, <<<<1, 9, 0>>, <<2, 3, 11>>>>,
       <<<<1, 11, 2>>, <<1, 9, 11>>, <<9, 8, 11>>>>, <<<<3, 10, 1>>, <<11, 10, 3>>>>,
       <<<<0, 10, 1>>, <<0, 8, 10>>, <<8, 11, 10>>>>,
       <<<<3, 9, 0>>, <<3, 11, 9>>, <<11, 10, 9>>>>, <<<<9, 8, 10>>, <<10, 8, 11>>>>,
       <<<<4, 7, 8>>>>, <<<<4, 3, 0>>, <<7, 3, 4>>>>, <<<<0, 1, 9>>, <<8, 4, 7>>>>,
       <<<<4, 1, 9>>, <<4, 7, 1>>, <<7, 3, 1>>>>, <<<<1, 2, 10>>, <<8, 4, 7>>>>,
       <<<<3, 4, 7>>, <<3, 0, 4>>, <<1, 2, 10>>>>, <<<<9, 2, 10>>, <<9, 0, 2>>, <<8, 4, 7>>>>,
       <<<<2, 10, 9>>, <<2, 9, 7>>, <<2, 7, 3>>, <<7, 4, 9>>>>, <<<<8, 4, 7>>, <<3, 11, 2>>>>,
       <<<<11, 4, 7>>, <<11, 2, 4>>, <<2, 0, 4>>>>, <<<<9, 0, 1>>, <<8, 4, 7>>, <<2, 3, 11>>>>,
       <<<<4, 7, 11>>, <<9, 4, 11>>, <<9, 11, 2>>, <<9, 2, 1>>>>,
       <<<<3, 10, 1>>, <<3, 11, 10>>, <<7, 8, 4>>>>,
       <<<<1, 11, 10>>, <<1, 4, 11>>, <<1, 0, 4>>, <<7, 11, 4>>>>,
       <<<<4, 8, 0>>, <<7, 11, 10>>, <<1, 9, 0>>, <<11, 10, 9>>, <<3, 11, 9>>, <<4, 7, 9>>>>,
       <<<<4, 11, 7>>, <<9, 11, 4>>, <<9, 10, 11>>, <<9, 1, 10>>>>, <<<<1, 4, 0>>, <<5, 4, 1>>>>,
       <<<<1, 5, 4>>, <<1, 4, 8>>, <<1, 8, 3>>>>, <<<<5, 9, 4>>, <<0, 9, 5>>>>,
       <<<<0, 5, 4>>, <<1, 5, 4>>, <<8, 3, 5>>, <<3, 4, 5>>>>, <<<<5, 4, 1>>, <<2, 10, 1>>>>,
       <<<<8, 3, 0>>, <<5, 4, 1>>, <<2, 10, 1>>>>, <<<<4, 5, 9>>, <<10, 2, 0>>, <<10, 0, 9>>>>,
       <<<<5, 3, 2>>, <<4, 5, 2>>, <<10, 2, 8>>, <<8, 2, 5>>, <<8, 5, 3>>>>,
       <<<<4, 1, 5>>, <<2, 3, 11>>>>,
       <<<<11, 5, 2>>, <<8, 5, 0>>, <<3, 11, 5>>, <<4, 8, 5>>, <<2, 5, 0>>>>,
       <<<<11, 4, 5>>, <<9, 4, 5>>, <<9, 5, 2>>, <<9, 2, 1>>, <<11, 9, 4>>, <<3, 11, 9>>>>,
       <<<<2, 5, 9>>, <<2, 9, 10>>, <<2, 4, 9>>, <<2, 11, 4>>, <<8, 4, 11>>>>,
       <<<<5, 10, 1>>, <<5, 4, 10>>, <<7, 10, 4>>>>,
       <<<<10, 5, 4>>, <<2, 10, 4>>, <<0, 2, 4>>, <<3, 0, 4>>, <<7, 4, 3>>>>,
       <<<<0, 4, 5>>, <<1, 4, 5>>, <<1, 5, 10>>, <<7, 4, 1>>, <<3, 7, 1>>>>,
       <<<<4, 5, 7>>, <<5, 10, 7>>, <<10, 1, 7>>, <<1, 3, 7>>>>,
       <<<<7, 4, 5>>, <<3, 7, 5>>, <<3, 5, 1>>, <<11, 3, 5>>>>,
       <<<<1, 11, 5>>, <<1, 5, 4>>, <<5, 11, 3>>, <<5, 3, 0>>, <<5, 0, 4>>>>,
       <<<<0, 5, 4>>, <<0, 9, 5>>, <<7, 3, 11>>>>, <<<<4, 5, 9>>, <<7, 4, 11>>>>,
       <<<<9, 7, 8>>, <<5, 9, 7>>>>, <<<<9, 3, 0>>, <<9, 7, 3>>, <<5, 9, 7>>>>,
       <<<<0, 7, 8>>, <<0, 1, 7>>, <<1, 5, 7>>>>, <<<<1, 7, 3>>, <<1, 5, 7>>>>,
       <<<<9, 7, 8>>, <<9, 5, 7>>, <<10, 1, 2>>>>,
       <<<<10, 1, 2>>, <<5, 0, 9>>, <<5, 3, 0>>, <<5, 7, 3>>>>,
       <<<<8, 0, 2>>, <<8, 2, 5>>, <<8, 5, 7>>, <<10, 5, 2>>>>,
       <<<<2, 10, 5>>, <<2, 5, 3>>, <<3, 5, 7>>>>,
       <<<<7, 8, 9>>, <<5, 7, 9>>, <<5, 9, 2>>, <<5, 2, 11>>, <<5, 11, 3>>>>,
       <<<<9, 2, 0>>, <<9, 7, 2>>, <<9, 5, 7>>, <<11, 2, 7>>>>,
       <<<<0, 3, 8>>, <<1, 2, 11>>, <<5, 7, 9>>>>,
       <<<<5, 1, 9>>, <<5, 7, 1>>, <<7, 3, 1>>, <<11, 2, 7>>>>,
       <<<<8, 1, 3>>, <<8, 5, 1>>, <<8, 9, 5>>, <<10, 1, 5>>, <<11, 3, 5>>>>,
       <<<<0, 9, 1>>, <<5, 11, 3>>>>, <<<<8, 0, 5>>, <<0, 1, 5>>, <<5, 1, 10>>>>,
       <<<<10, 5, 1>>>>, <<<<5, 8, 9>>, <<5, 7, 8>>>>, <<<<9, 7, 0>>, <<9, 5, 7>>, <<0, 7, 3>>>>,
       <<<<0, 5, 8>>, <<0, 1, 5>>, <<8, 5, 7>>>>, <<<<1, 5, 3>>, <<3, 5, 7>>>>,
       <<<<5, 8, 9>>, <<5, 7, 8>>, <<1, 2, 10>>>>,
       <<<<9, 7, 0>>, <<9, 5, 7>>, <<10, 1, 2>>, <<0, 7, 3>>>>,
       <<<<10, 8, 0>>, <<10, 5, 8>>, <<1, 10, 0>>, <<7, 8, 5>>>>,
       <<<<10, 5, 2>>, <<1, 10, 5>>, <<5, 7, 3>>, <<5, 3, 2>>>>,
       <<<<2, 5, 8>>, <<2, 8, 9>>, <<2, 9, 10>>, <<5, 7, 8>>>>, <<<<9, 2, 0>>, <<10, 5, 2>>>>,
       <<<<0, 3, 8>>, <<1, 2, 10>>>>, <<<<1, 2, 10>>>>, <<<<7, 5, 4>>>>,
       <<<<7, 4, 8>>, <<0, 8, 3>>>>, <<<<0, 9, 1>>, <<8, 4, 7>>>>,
       <<<<4, 3, 1>>, <<4, 1, 9>>, <<4, 7, 3>>>>, <<<<1, 2, 10>>, <<8, 4, 7>>>>,
       <<<<3, 4, 7>>, <<0, 4, 3>>, <<1, 2, 10>>>>,
       <<<<9, 4, 7>>, <<9, 7, 10>>, <<9, 10, 2>>, <<0, 9, 2>>>>,
       <<<<2, 10, 9>>, <<3, 4, 7>>, <<3, 7, 9>>, <<3, 9, 2>>>>, <<<<8, 4, 7>>, <<3, 2, 11>>>>,
       <<<<4, 7, 11>>, <<0, 4, 11>>, <<0, 11, 2>>>>, <<<<9, 0, 1>>, <<4, 7, 8>>, <<2, 3, 11>>>>,
       <<<<1, 2, 11>>, <<1, 11, 9>>, <<4, 7, 11>>, <<9, 11, 4>>>>,
       <<<<3, 10, 1>>, <<3, 11, 10>>, <<7, 8, 4>>>>,
       <<<<1, 11, 10>>, <<0, 4, 7>>, <<0, 7, 3>>, <<0, 11, 4>>, <<3, 11, 0>>>>,
       <<<<4, 8, 0>>, <<10, 3, 11>>, <<10, 9, 3>>, <<10, 1, 9>>, <<4, 7, 10>>, <<0, 10, 3>>>>,
       <<<<4, 10, 9>>, <<4, 7, 10>>, <<7, 11, 10>>, <<1, 10, 11>>>>,
       <<<<5, 4, 7>>, <<1, 2, 10>>>>, <<<<8, 3, 0>>, <<5, 4, 7>>, <<1, 2, 10>>>>,
       <<<<9, 0, 2>>, <<9, 2, 10>>, <<5, 4, 7>>>>,
       <<<<2, 10, 9>>, <<2, 9, 3>>, <<3, 9, 4>>, <<3, 4, 7>>>>,
       <<<<4, 7, 5>>, <<3, 1, 2>>, <<3, 2, 11>>>>,
       <<<<0, 2, 4>>, <<4, 2, 7>>, <<2, 11, 7>>, <<1, 2, 4>>, <<0, 4, 1>>>>,
       <<<<7, 5, 4>>, <<11, 2, 3>>, <<1, 0, 9>>>>,
       <<<<4, 7, 9>>, <<7, 11, 9>>, <<11, 2, 9>>, <<2, 1, 9>>>>,
       <<<<5, 4, 7>>, <<10, 1, 2>>, <<8, 3, 11>>>>,
       <<<<3, 11, 2>>, <<0, 4, 7>>, <<0, 7, 1>>, <<1, 7, 5>>>>, <<<<8, 0, 9>>, <<1, 10, 2>>>>,
       <<<<1, 10, 2>>>>, <<<<7, 8, 4>>, <<5, 7, 4>>>>, <<<<3, 0, 4>>, <<7, 3, 4>>, <<5, 7, 4>>>>,
       <<<<1, 9, 0>>, <<5, 7, 4>>, <<8, 7, 5>>>>, <<<<1, 4, 9>>, <<1, 7, 4>>, <<1, 3, 7>>>>,
       <<<<1, 2, 10>>, <<4, 7, 8>>, <<5, 4, 7>>>>,
       <<<<4, 3, 0>>, <<4, 7, 3>>, <<5, 4, 7>>, <<1, 2, 10>>>>,
       <<<<9, 5, 4>>, <<10, 2, 0>>, <<10, 0, 8>>, <<10, 8, 7>>, <<10, 7, 5>>>>,
       <<<<10, 2, 1>>, <<9, 5, 4>>, <<8, 7, 5>>, <<8, 5, 4>>>>, <<<<8, 4, 7>>, <<11, 2, 3>>>>,
       <<<<11, 4, 7>>, <<2, 4, 11>>, <<0, 4, 2>>>>,
       <<<<3, 11, 2>>, <<4, 8, 1>>, <<4, 1, 9>>, <<4, 7, 8>>, <<8, 9, 1>>>>,
       <<<<1, 4, 11>>, <<1, 9, 4>>, <<2, 11, 4>>, <<7, 11, 9>>>>,
       <<<<3, 10, 1>>, <<11, 10, 3>>, <<4, 8, 7>>, <<5, 4, 7>>>>,
       <<<<0, 4, 7>>, <<7, 3, 11>>, <<10, 1, 5>>, <<11, 10, 5>>, <<10, 3, 5>>, <<1, 10, 3>>, <<1, 3, 0>>>>,
       <<<<0, 9, 3>>, <<3, 9, 11>>, <<11, 9, 10>>, <<5, 4, 8>>, <<8, 7, 5>>>>,
       <<<<7, 5, 4>>, <<9, 11, 10>>, <<9, 2, 11>>, <<9, 1, 2>>>>,
       <<<<8, 4, 5>>, <<7, 8, 5>>, <<3, 1, 10>>>>, <<<<1, 10, 3>>, <<3, 10, 7>>, <<7, 10, 5>>>>,
       <<<<0, 8, 5>>, <<8, 7, 5>>, <<0, 5, 9>>, <<1, 9, 10>>>>, <<<<9, 10, 5>>, <<9, 5, 1>>>>,
       <<<<5, 7, 4>>, <<4, 8, 3>>, <<4, 3, 1>>, <<4, 1, 5>>>>,
       <<<<5, 7, 4>>, <<0, 3, 1>>, <<0, 1, 5>>>>, <<<<5, 7, 4>>, <<4, 8, 0>>, <<1, 0, 9>>>>,
       <<<<1, 5, 9>>, <<5, 7, 1>>, <<7, 3, 1>>>>, <<<<8, 4, 5>>, <<7, 8, 5>>, <<1, 2, 10>>>>,
       <<<<0, 4, 7>>, <<3, 0, 7>>, <<2, 1, 10>>>>,
       <<<<10, 8, 0>>, <<10, 4, 8>>, <<9, 4, 10>>, <<2, 10, 0>>, <<4, 5, 10>>>>,
       <<<<2, 10, 4>>, <<10, 5, 4>>, <<2, 4, 1>>>>, <<<<5, 8, 4>>, <<3, 2, 11>>>>,
       <<<<0, 5, 2>>, <<5, 4, 2>>, <<4, 11, 2>>, <<3, 11, 2>>>>,
       <<<<3, 2, 11>>, <<0, 9, 1>>, <<4, 8, 5>>>>,
       <<<<1, 2, 11>>, <<4, 5, 9>>, <<4, 9, 1>>, <<4, 1, 11>>>>,
       <<<<3, 10, 1>>, <<11, 10, 3>>, <<8, 5, 4>>>>,
       <<<<0, 10, 1>>, <<3, 10, 0>>, <<11, 10, 3>>, <<4, 5, 8>>>>,
       <<<<8, 0, 10>>, <<0, 9, 10>>, <<3, 10, 11>>, <<4, 5, 8>>>>,
       <<<<10, 4, 5>>, <<9, 4, 10>>, <<11, 10, 9>>, <<1, 9, 10>>>>,
       <<<<5, 7, 8>>, <<1, 2, 10>>>>, <<<<1, 2, 10>>, <<4, 7, 5>>, <<0, 3, 8>>>>,
       <<<<10, 9, 2>>, <<9, 0, 2>>, <<4, 7, 5>>, <<8, 7, 4>>>>,
       <<<<4, 5, 7>>, <<2, 10, 9>>, <<3, 2, 9>>, <<1, 3, 9>>>>,
       <<<<8, 5, 7>>, <<2, 3, 10>>, <<11, 10, 3>>, <<10, 1, 3>>>>,
       <<<<1, 10, 2>>, <<0, 11, 3>>, <<0, 5, 11>>, <<0, 4, 5>>>>,
       <<<<3, 8, 0>>, <<5, 10, 2>>, <<5, 2, 11>>, <<5, 11, 3>>>>,
       <<<<11, 5, 2>>, <<10, 5, 11>>, <<1, 2, 5>>>>, <<<<5, 8, 7>>, <<1, 3, 2>>>>,
       <<<<2, 3, 0>>, <<1, 2, 5>>, <<3, 5, 7>>, <<3, 7, 5>>>>,
       <<<<0, 7, 8>>, <<0, 1, 7>>, <<2, 7, 5>>, <<1, 2, 5>>>>,
       <<<<1, 2, 5>>, <<2, 7, 5>>, <<3, 7, 2>>>>, <<<<3, 2, 11>>, <<5, 8, 7>>, <<1, 5, 2>>>>,
       <<<<2, 11, 3>>, <<1, 2, 0>>, <<0, 2, 5>>>>, <<<<3, 8, 7>>, <<5, 2, 11>>, <<5, 11, 3>>>>,
       <<<<11, 2, 5>>, <<1, 5, 2>>>>, <<<<5, 8, 9>>, <<5, 7, 8>>, <<3, 2, 11>>>>,
       <<<<0, 9, 2>>, <<9, 5, 2>>, <<11, 2, 7>>, <<7, 5, 2>>>>, <<<<0, 3, 8>>, <<1, 2, 11>>>>,
       <<<<1, 2, 11>>>>, <<<<9, 7, 8>>, <<9, 5, 7>>, <<10, 1, 2>>>>,
       <<<<10, 1, 2>>, <<0, 9, 5>>, <<0, 5, 7>>, <<0, 7, 3>>>>,
       <<<<8, 0, 2>>, <<8, 2, 5>>, <<8, 5, 7>>, <<10, 2, 1>>>>,
       <<<<2, 10, 1>>, <<2, 1, 5>>, <<2, 5, 3>>, <<3, 5, 7>>>>,
       <<<<7, 9, 5>>, <<7, 8, 9>>, <<3, 2, 11>>>>,
       <<<<9, 2, 0>>, <<9, 7, 2>>, <<5, 7, 9>>, <<11, 2, 7>>>>, <<<<0, 3, 8>>, <<1, 2, 11>>>>,
       <<<<1, 2, 11>>>>, <<<<1, 10, 2>>, <<9, 7, 5>>, <<8, 7, 9>>>>,
       <<<<10, 2, 1>>, <<0, 9, 5>>, <<3, 0, 5>>, <<3, 5, 7>>>>,
       <<<<0, 8, 5>>, <<0, 5, 2>>, <<2, 5, 10>>, <<8, 7, 5>>>>,
       <<<<5, 2, 10>>, <<5, 3, 2>>, <<7, 3, 5>>>>, <<<<9, 5, 8>>, <<5, 7, 8>>, <<3, 2, 11>>>>,
       <<<<0, 9, 5>>, <<0, 5, 3>>, <<3, 5, 7>>, <<11, 2, 3>>>>, <<<<8, 0, 3>>, <<1, 2, 11>>>>,
       <<<<1, 2, 11>>>>, <<<<10, 1, 2>>, <<9, 5, 7>>, <<8, 9, 7>>>>,
       <<<<10, 1, 2>>, <<0, 9, 3>>, <<3, 9, 5>>, <<3, 5, 7>>>>,
       <<<<10, 8, 2>>, <<8, 0, 2>>, <<5, 7, 9>>>>, <<<<10, 2, 5>>, <<2, 3, 5>>, <<3, 7, 5>>>>,
       <<<<2, 3, 11>>, <<9, 5, 8>>, <<5, 7, 8>>>>,
       <<<<2, 3, 11>>, <<0, 9, 5>>, <<5, 7, 0>>, <<7, 3, 0>>>>, <<<<0, 3, 8>>, <<2, 3, 11>>>>,
       <<<<2, 3, 11>>>> >>

\* The 12 edges of a cube, by the numbers of their two corners.
CubeEdges ==
    << <<0, 1>>, <<1, 2>>, <<2, 3>>, <<3, 0>>, <<4, 5>>, <<5, 6>>, <<6, 7>>, <<7, 4>>,
       <<0, 4>>, <<1, 5>>, <<2, 6>>, <<3, 7>> >>

\* The corners of a cube as offsets <<dy, dx, dz>> from its first corner.
CornerOffsets ==
    << <<0, 0, 0>>, <<0, 1, 0>>, <<1, 1, 0>>, <<1, 0, 0>>,
       <<0, 0, 1>>, <<0, 1, 1>>, <<1, 1, 1>>, <<1, 0, 1>> >>

\* corners[i] of a cube: isOccupied, the front grid's cell and the side grid's cell
\* of the corner both active. front[dy][dx] and side[dy][dz] are the cells the
\* cube's corners read.
CubeCornerValues(front, side) ==
    [i \in 1 .. 8 |-> front[CornerOffsets[i][1]][CornerOffsets[i][2]]
                         /\ side[CornerOffsets[i][1]][CornerOffsets[i][3]]]

RECURSIVE BitsValue(_, _)
BitsValue(corners, n) ==
    IF n = 0 THEN 0
    ELSE BitsValue(corners, n - 1) + (IF corners[n] THEN 2 ^ (n - 1) ELSE 0)

\* cubeIndex |= 1 << i for every occupied corner i
CubeIndexOf(corners) == BitsValue(corners, 8)

\* MARCHING_CUBES_TABLE[cubeIndex]: undefined past the end of the array.
TableLookup(cubeIndex) ==
    IF cubeIndex + 1 <= Len(MARCHING_CUBES_TABLE)
    THEN [defined |-> TRUE, triangles |-> MARCHING_CUBES_TABLE[cubeIndex + 1]]
    ELSE [defined |-> FALSE, triangles |-> <<>>]

\* One cube of the table-driven generateLimbGeometrySmooth: skipped when no or
\* every corner is occupied; else the triangles of the table all of whose edges
\* cross the surface; `for (const tri of undefined)` throws a TypeError.
MarchCube(front, side) ==
    LET corners == CubeCornerValues(front, side)
        cubeIndex == CubeIndexOf(corners)
        Crosses(e) == corners[CubeEdges[e + 1][1] + 1] # corners[CubeEdges[e + 1][2] + 1]
        Valid(tri) == \A k \in 1 .. 3 : Crosses(tri[k])
        found == TableLookup(cubeIndex)
    IN  IF cubeIndex = 0 \/ cubeIndex = 255
        THEN [cubeIndex |-> cubeIndex, outcome |-> "skipped", triangles |-> <<>>]
        ELSE IF ~found.defined
        THEN [cubeIndex |-> cubeIndex, outcome |-> "throws", triangles |-> <<>>]
        ELSE [cubeIndex |-> cubeIndex, outcome |-> "triangles",
              triangles |-> SelectSeq(found.triangles, Valid)]

CallMarchCube(front, side) ==
    /\ utilCall' = [fn |-> "marchCube",
                    args |-> [front |-> front, side |-> side],
                    result |-> MarchCube(front, side)]
    /\ lastOp' = Did("marchCube")
    /\ UNCHANGED <<editorVars, sliceVars, settingVars, primVars, socket, voxelInput, voxelMap, limbGeometry>>

(* ----------------------------- convex hull ---------------------------- *)
\* Grid points are [row, col] records.
cross(o, a, b) == (a.col - o.col) * (b.row - o.row) - (a.row - o.row) * (b.col - o.col)

\* Array.from(new Set(points.map(...))).map(...): the first occurrence of each point,
\* in the order of the array (the string `${row},${col}` and the pair of integers
\* determine each other).
UniquePoints(points) ==
    LET First(i) == \A j \in 1 .. (i - 1) : points[j] # points[i]
        kept == SelectSeq([i \in 1 .. Len(points) |-> i], First)
    IN  Eager([k \in 1 .. Len(kept) |-> points[kept[k]]])

\* a sorts before b: a.col === b.col ? a.row - b.row : a.col - b.col is negative.
ColRowBefore(a, b) == IF a.col = b.col THEN a.row < b.row ELSE a.col < b.col

\* uniquePoints.sort(...) on points that differ pairwise: each point goes to the
\* place after the points that sort before it.
SortByColRow(ps) ==
    LET Place(i) == 1 + Cardinality({j \in 1 .. Len(ps) : ColRowBefore(ps[j], ps[i])})
        places == Eager([i \in 1 .. Len(ps) |-> Place(i)])
    IN  Eager([k \in 1 .. Len(ps) |-> ps[CHOOSE i \in 1 .. Len(ps) : places[i] = k]])

\* Variant: the loop pops without looking at the turn.
PopWhileLong(chain, point) == IF Len(chain) >= 2 THEN SubSeq(chain, 1, 1) ELSE chain

\* Variant: the loop pops on a right turn only, a point in line with its neighbours
\* stays.
RECURSIVE PopWhileTurningRight(_, _)
PopWhileTurningRight(chain, point) ==
    IF Len(chain) >= 2 /\ cross(chain[Len(chain) - 1], chain[Len(chain)], point) < 0
    THEN PopWhileTurningRight(SubSeq(chain, 1, Len(chain) - 1), point)
    ELSE chain

\* while (chain.length >= 2 && cross(...) <= 0) chain.pop()
RECURSIVE PopWhile(_, _)
PopWhile(chain, point) ==
    IF Len(chain) >= 2 /\ cross(chain[Len(chain) - 1], chain[Len(chain)], point) <= 0
    THEN PopWhile(SubSeq(chain, 1, Len(chain) - 1), point)
    ELSE chain

\* The chain after the loop has taken the first n points of the array.
RECURSIVE BuildChain(_, _)
BuildChain(ps, n) ==
    IF n = 0 THEN <<>>
    ELSE Append(PopWhile(BuildChain(ps, n - 1), ps[n]), ps[n])

Reversed(ps) == [k \in 1 .. Len(ps) |-> ps[Len(ps) + 1 - k]]

getConvexHull(points) ==
    IF Len(points) < 3 THEN points
    ELSE LET uniquePoints == UniquePoints(points)
             sorted == SortByColRow(uniquePoints)
             lower == BuildChain(sorted, Len(sorted))
             upper == BuildChain(Reversed(sorted), Len(sorted))
         IN  IF Len(uniquePoints) < 3 THEN uniquePoints
             ELSE SubSeq(lower, 1, Len(lower) - 1) \o SubSeq(upper, 1, Len(upper) - 1)

\* Where the edge from p1 to p2 meets the scanline of a row: the column
\* p1.col + (row - p1.row) * (p2.col - p1.col) / (p2.row - p1.row), as a fraction
\* <<numerator, denominator>> with a positive denominator.
Intersection(p1, p2, row) ==
    LET den == p2.row - p1.row
        num == p1.col * den + (row - p1.row) * (p2.col - p1.col)
    IN  IF den < 0 THEN <<-num, -den>> ELSE <<num, den>>

\* (p1.row <= row && p2.row > row) || (p2.row <= row && p1.row > row)
EdgeCrosses(p1, p2, row) ==
    \/ p1.row <= row /\ p2.row > row
    \/ p2.row <= row /\ p1.row > row

\* The intersections of a row's scanline with the edges, in edge order.
Intersections(hull, row) ==
    LET n == Len(hull)
        Crossing(i) == EdgeCrosses(hull[i], hull[(i % n) + 1], row)
        crossing == SelectSeq([i \in 1 .. n |-> i], Crossing)
    IN  Eager([k \in 1 .. Len(crossing) |->
                  Intersection(hull[crossing[k]], hull[(crossing[k] % n) + 1], row)])

\* intersections.sort((a, b) => a - b), equal values in their order.
SortIntersections(xs) ==
    LET Before(i, j) ==
            \/ xs[i][1] * xs[j][2] < xs[j][1] * xs[i][2]
            \/ xs[i][1] * xs[j][2] = xs[j][1] * xs[i][2] /\ i < j
        Place(i) == 1 + Cardinality({j \in 1 .. Len(xs) : Before(j, i)})
        places == Eager([i \in 1 .. Len(xs) |-> Place(i)])
    IN  Eager([k \in 1 .. Len(xs) |-> xs[CHOOSE i \in 1 .. Len(xs) : places[i] = k]])

\* Math.ceil and Math.floor of a fraction.
Ceil(x) == -((-x[1]) \div x[2])
Floor(x) == x[1] \div x[2]

Least(S) == CHOOSE m \in S : \A other \in S : m <= other
Most(S) == CHOOSE m \in S : \A other \in S : other <= m

\* The cells fillPolygon adds for one row, pair of intersections by pair.
RECURSIVE FillPairs(_, _, _, _, _)
FillPairs(sorted, k, row, minCol, maxCol) ==
    IF k + 1 > Len(sorted) THEN <<>>
    ELSE LET startCol == Most({minCol, Ceil(sorted[k])})
             endCol == Least({maxCol, Floor(sorted[k + 1])})
         IN  [c \in 1 .. (IF endCol >= startCol THEN endCol - startCol + 1 ELSE 0) |->
                 [row |-> row, col |-> startCol + c - 1]]
             \o FillPairs(sorted, k + 2, row, minCol, maxCol)

RECURSIVE FillRows(_, _, _, _, _)
FillRows(hull, row, maxRow, minCol, maxCol) ==
    IF row > maxRow THEN <<>>
    ELSE FillPairs(SortIntersections(Intersections(hull, row)), 1, row, minCol, maxCol)
         \o FillRows(hull, row + 1, maxRow, minCol, maxCol)

\* fillPolygon(hull, gridSize): the cells in the order the Set received them.
fillPolygon(hull, gridSize) ==
    IF Len(hull) < 3 THEN <<>>
    ELSE LET rows == {hull[i].row : i \in 1 .. Len(hull)}
             cols == {hull[i].col : i \in 1 .. Len(hull)}
             minRow == Most({0, Least(rows)})
             maxRow == Least({gridSize - 1, Most(rows)})
             minCol == Most({0, Least(cols)})
             maxCol == Least({gridSize - 1, Most(cols)})
         IN  UniquePoints(FillRows(hull, minRow, maxRow, minCol, maxCol))

\* One call of fillPolygon.
CallFillPolygon(hull, gridSize) ==
    /\ utilCall' = [fn |-> "fillPolygon",
                    args |-> [points |-> hull, gridSize |-> gridSize],
                    result |-> fillPolygon(hull, gridSize)]
    /\ lastOp' = Did("fillPolygon")
    /\ UNCHANGED <<editorVars, sliceVars, settingVars, primVars, socket, voxelInput, voxelMap, limbGeometry>>

\* One call of getConvexHull.
CallGetConvexHull(points) ==
    /\ lastOp.op = "init"
    /\ utilCall' = [fn |-> "getConvexHull",
                    args |-> [points |-> points],
                    result |-> getConvexHull(points)]
    /\ lastOp' = Did("getConvexHull")
    /\ UNCHANGED <<editorVars, sliceVars, settingVars, primVars, socket, voxelInput, voxelMap, limbGeometry>>

\* The slices array in another order: place k holds slice order[k].
Reordered(ss, order) == [k \in 1 .. Len(ss) |-> ss[order[k]]]

\* One call of buildOccupiedVoxels on the store's slices handed over in some order
\* (the meshers' heightScale).
CallBuildOccupiedVoxels(order) ==
    /\ voxelInput' = Reordered(slices, order)
    /\ voxelMap' = buildOccupiedVoxels(voxelInput', GridSize, GridSize * CellSize)
    /\ lastOp' = Did("buildOccupiedVoxels")
    /\ UNCHANGED <<editorVars, sliceVars, settingVars, primVars, socket, limbGeometry, utilCall>>

(* ---------------------------- the slice editor ------------------------ *)
\* const filledCells = fillPolygon(hull, 20)
EditorGridSize == 20

\* The GridEditor of the top slice (every slice has one, running the same code).
EditorSliceId == InitialSlices[1].id
EditorGrid == slices[CHOOSE k \in 1 .. Len(slices) : slices[k].id = EditorSliceId].grid

\* The cells that are true in slice.grid, row by row.
allTrueCells(grid) ==
    LET IsTrue(i) == grid[(i - 1) \div GridSize][(i - 1) % GridSize]
        kept == SelectSeq([i \in 1 .. GridSize * GridSize |-> i], IsTrue)
    IN  Eager([k \in 1 .. Len(kept) |->
                  [row |-> (kept[k] - 1) \div GridSize, col |-> (kept[k] - 1) % GridSize]])

\* updateConvexShape(points), up to its store calls: the cells it fills.
filledCells(grid, points) ==
    IF points = <<>> THEN <<>>
    ELSE LET Filled(hull) == fillPolygon(hull, EditorGridSize)
         IN  CHOOSE cells \in {Filled(hull) :
                                  hull \in {getConvexHull(allTrueCells(grid) \o points)}} : TRUE

\* Variant: the slice is emptied before the cells are filled.
RECURSIVE FillCellsCleared(_, _, _, _)
FillCellsCleared(ss, sliceId, cells, n) ==
    IF n = 0 THEN ClearSliceSlices(ss, sliceId)
    ELSE SetSliceCellSlices(FillCellsCleared(ss, sliceId, cells, n - 1), sliceId,
                            cells[n].row, cells[n].col, TRUE)

\* filledCells.forEach(cell => setSliceCell(slice.id, cell.row, cell.col, true)),
\* the first n cells.
RECURSIVE FillCells(_, _, _, _)
FillCells(ss, sliceId, cells, n) ==
    IF n = 0 THEN ss
    ELSE Eager(SetSliceCellSlices(FillCells(ss, sliceId, cells, n - 1), sliceId,
                                  cells[n].row, cells[n].col, TRUE))

\* updateConvexShape(points): every setSliceCell call also nulls the socket.
updateConvexShape(points) ==
    LET filled == filledCells(EditorGrid, points)
    IN  /\ slices' = FillCells(slices, EditorSliceId, filled, Len(filled))
        /\ socket' = IF filled = <<>> THEN socket ELSE NULL

handleMouseDown(row, col) ==
    /\ isDrawing' = TRUE
    /\ drawnPoints' = <<[row |-> row, col |-> col]>>
    /\ updateConvexShape(<<[row |-> row, col |-> col]>>)
    /\ lastOp' = DidToSocket("handleMouseDown")
    /\ UNCHANGED <<settingVars, primVars, limbVars>>

handleMouseEnter(row, col) ==
    /\ IF isDrawing
       THEN /\ drawnPoints' = Append(drawnPoints, [row |-> row, col |-> col])
            /\ updateConvexShape(Append(drawnPoints, [row |-> row, col |-> col]))
       ELSE UNCHANGED <<drawnPoints, slices, socket>>
    /\ lastOp' = DidToSocket("handleMouseEnter")
    /\ UNCHANGED <<isDrawing, settingVars, primVars, limbVars>>

handleMouseUp ==
    /\ isDrawing' = FALSE
    /\ drawnPoints' = <<>>
    /\ lastOp' = DidToSocket("handleMouseUp")
    /\ UNCHANGED <<sliceVars, settingVars, primVars, limbVars, socket>>

handleMouseLeave ==
    /\ isDrawing' = FALSE
    /\ drawnPoints' = <<>>
    /\ lastOp' = DidToSocket("handleMouseLeave")
    /\ UNCHANGED <<sliceVars, settingVars, primVars, limbVars, socket>>

(* ---------------------------- specifications -------------------------- *)
SliceIds == 0 .. 4
CellArgs == 0 .. GridSize

\* The slice editors and the socket.
Next ==
    \/ \E sliceId \in SliceIds, row \in CellArgs, col \in CellArgs, value \in BOOLEAN :
           SetSliceCell(sliceId, row, col, value)
    \/ \E sliceId \in SliceIds : ClearSlice(sliceId)
    \/ \E geometry \in {NULL, SocketMesh} : SetSocket(geometry)
    \/ ClearSocket

Spec == Init /\ [][Next]_vars

\* The control panel's settings and the socket.
Visibilities == {"none", "voxel", "smooth"}
InflationValues == {0, 10, 20}
ThicknessValues == {5, 10}

NextSettings ==
    \/ \E visibility \in Visibilities : SetLimbVisibility(visibility)
    \/ \E value \in InflationValues : SetInflation(value)
    \/ \E value \in BOOLEAN : SetSmoothNormals(value)
    \/ \E value \in ThicknessValues : SetSocketThickness(value)
    \/ \E value \in BOOLEAN : SetSocketUseConvexHull(value)
    \/ \E geometry \in {NULL, SocketMesh} : SetSocket(geometry)
    \/ ClearSocket

SpecSettings == Init /\ [][NextSettings]_vars

\* The control panel's primitive list, the viewport's selection, and the socket.
ListedIds == {primitives[k].id : k \in 1 .. Len(primitives)}
UpdateSets == {[operation |-> o] : o \in Operations}
\* An id no primitive has.
UnknownId == <<"cube", -1>>

NextPrimitives ==
    \/ Tick
    \/ \E type \in PrimitiveTypes : AddPrimitive(type)
    \/ \E id \in ListedIds \cup {UnknownId}, updates \in UpdateSets :
           UpdatePrimitive(id, updates)
    \/ \E id \in ListedIds \cup {UnknownId} : DeletePrimitive(id)
    \/ \E id \in ListedIds \cup {NoId} : SetSelectedPrimitive(id)
    \/ \E geometry \in {NULL, SocketMesh} : SetSocket(geometry)
    \/ ClearSocket

SpecPrimitives == Init /\ [][NextPrimitives]_vars

\* The primitive list alone: the three store actions that rebuild it, and the clock.
NextPrimitiveList ==
    \/ Tick
    \/ \E type \in PrimitiveTypes : AddPrimitive(type)
    \/ \E id \in ListedIds \cup {UnknownId}, updates \in UpdateSets :
           UpdatePrimitive(id, updates)
    \/ \E id \in ListedIds \cup {UnknownId} : DeletePrimitive(id)

SpecPrimitiveList == Init /\ [][NextPrimitiveList]_vars

\* The meshers, on every limb of at most MaxActive active cells the slice editors
\* can leave in the store.
SliceCells == (1 .. Len(InitialSlices)) \X Cells \X Cells

RECURSIVE SubsetsUpTo(_, _)
SubsetsUpTo(S, k) ==
    IF k = 0 THEN {{}}
    ELSE LET smaller == SubsetsUpTo(S, k - 1)
         IN  smaller \cup {p \cup {x} : p \in smaller, x \in S}

SlicesDrawn(active) ==
    [k \in 1 .. Len(InitialSlices) |->
        [InitialSlices[k] EXCEPT
            !.grid = [r \in Cells |-> [c \in Cells |-> <<k, r, c>> \in active]]]]

LimbInputs == {SlicesDrawn(active) : active \in SubsetsUpTo(SliceCells, MaxActive)}

InitLimb ==
    /\ slices \in LimbInputs
    /\ limbVisibility = "voxel"
    /\ inflation = 0
    /\ smoothNormals = TRUE
    /\ socket = NULL
    /\ socketThickness = 5
    /\ socketUseConvexHull = TRUE
    /\ primitives = <<>>
    /\ selectedPrimitiveId = NoId
    /\ now = 0
    /\ voxelInput = <<>>
    /\ voxelMap = <<>>
    /\ limbGeometry = NoGeometry
    /\ utilCall = NoCall
    /\ isDrawing = FALSE
    /\ drawnPoints = <<>>
    /\ lastOp = [op |-> "init", hadSocket |-> FALSE, prevSelected |-> NoId]

NextLimb ==
    \/ CallGenerateLimbGeometry
    \/ CallGenerateLimbGeometrySmooth

SpecLimb == InitLimb /\ [][NextLimb]_vars

\* The loft on permuted arrays: a first call on the store's array, then a call on
\* the same slices in any order. A slice of these limbs is empty or has one active
\* cell, on the diagonal of its grid.
SliceOrders ==
    {order \in [1 .. Len(InitialSlices) -> 1 .. Len(InitialSlices)] :
        \A i, j \in 1 .. Len(InitialSlices) : i # j => order[i] # order[j]}

StoreOrder == [k \in 1 .. Len(InitialSlices) |-> k]

LoftInputs ==
    {SlicesDrawn({<<k, drawn[k], drawn[k]>> : k \in {j \in DOMAIN drawn : drawn[j] \in Cells}}) :
        drawn \in [1 .. Len(InitialSlices) -> Cells \cup {-1}]}

InitLoft ==
    /\ slices \in LoftInputs
    /\ limbVisibility = "voxel"
    /\ inflation = 0
    /\ smoothNormals = TRUE
    /\ socket = NULL
    /\ socketThickness = 5
    /\ socketUseConvexHull = TRUE
    /\ primitives = <<>>
    /\ selectedPrimitiveId = NoId
    /\ now = 0
    /\ voxelInput = <<>>
    /\ voxelMap = <<>>
    /\ limbGeometry = NoGeometry
    /\ utilCall = NoCall
    /\ isDrawing = FALSE
    /\ drawnPoints = <<>>
    /\ lastOp = [op |-> "init", hadSocket |-> FALSE, prevSelected |-> NoId]

NextLoft ==
    \/ lastOp.op = "init" /\ CallBuildOccupiedVoxels(StoreOrder)
    \/ /\ lastOp.op = "buildOccupiedVoxels"
       /\ voxelInput = slices
       /\ \E order \in SliceOrders : CallBuildOccupiedVoxels(order)

SpecLoft == InitLoft /\ [][NextLoft]_vars

\* The meshers on limbs with several active cells in a slice: every slice has any
\* of the cells of its grid's diagonal active.
DiagonalCells == {<<k, c, c>> : k \in 1 .. Len(InitialSlices), c \in Cells}

DiagonalInputs ==
    {SlicesDrawn({t \in DiagonalCells : t[2] \in drawn[t[1]]}) :
        drawn \in [1 .. Len(InitialSlices) -> SUBSET Cells]}

InitLimbDiagonal ==
    /\ slices \in DiagonalInputs
    /\ limbVisibility = "voxel"
    /\ inflation = 0
    /\ smoothNormals = TRUE
    /\ socket = NULL
    /\ socketThickness = 5
    /\ socketUseConvexHull = TRUE
    /\ primitives = <<>>
    /\ selectedPrimitiveId = NoId
    /\ now = 0
    /\ voxelInput = <<>>
    /\ voxelMap = <<>>
    /\ limbGeometry = NoGeometry
    /\ utilCall = NoCall
    /\ isDrawing = FALSE
    /\ drawnPoints = <<>>
    /\ lastOp = [op |-> "init", hadSocket |-> FALSE, prevSelected |-> NoId]

SpecLimbDiagonal == InitLimbDiagonal /\ [][NextLimb]_vars

\* generateSocket on limb meshes of 0, 1, 3, 6 and 8 vertices, the store's thickness
\* and hull settings, and lists of at most MaxPrims primitives as the control panel
\* can leave them (its position, scale and operation inputs take any value).
BoxLimb == BufferGeometry(CubeVertices(Grain, Grain, 0, Grain), TRUE, CubeIndices(0))

WedgeLimb ==
    BufferGeometry(<< <<0, 0, -Grain>>, <<2 * Grain, 0, -Grain>>, <<Grain, 2 * Grain, -Grain>>,
                      <<0, 0, Grain>>, <<2 * Grain, 0, Grain>>, <<Grain, 2 * Grain, Grain>> >>,
                   TRUE,
                   <<0, 2, 1, 3, 4, 5, 0, 1, 4, 0, 4, 3, 1, 2, 5, 1, 5, 4, 2, 0, 3, 2, 3, 5>>)

TriangleLimb ==
    BufferGeometry(<< <<0, 0, 0>>, <<2 * Grain, 0, 0>>, <<0, 2 * Grain, 0>> >>, FALSE, <<>>)

SocketLimbs == {NoGeometry, EmptyGeometry, TriangleLimb, WedgeLimb, BoxLimb}

SocketThicknesses == {3, 5}

SocketPrimitives ==
    { [NewPrimitive("cube", 2) EXCEPT !.position = <<Grain, 3 * Grain, 0>>,
                                      !.scale = <<2 * Grain, 2 * Grain, 2 * Grain>>],
      [NewPrimitive("sphere", 3) EXCEPT !.position = <<2 * Grain, 0, 0>>,
                                        !.scale = <<4 * Grain, 4 * Grain, 4 * Grain>>,
                                        !.operation = "subtract"],
      [NewPrimitive("cylinder", 4) EXCEPT !.position = <<0, Grain, 0>>,
                                          !.scale = <<6 * Grain, 2 * Grain, 6 * Grain>>,
                                          !.operation = "intersect"] }

RECURSIVE ListsUpTo(_, _)
ListsUpTo(S, k) ==
    IF k = 0 THEN {<<>>}
    ELSE LET shorter == ListsUpTo(S, k - 1)
         IN  shorter \cup {Append(ps, p) : ps \in shorter, p \in S}

SocketPrimitiveLists ==
    {ps \in ListsUpTo(SocketPrimitives, MaxPrims) :
        \A i, j \in 1 .. Len(ps) : i # j => ps[i] # ps[j]}

\* The library calls of one generateSocket run of which at most one throws.
ThrowingSets ==
    {{}} \cup {{<<step, 0>>} : step \in {"inner", "outer", "shell", "cut"}}
         \cup {{<<"primitive", n>>} : n \in 1 .. MaxPrims}

InitSocket ==
    /\ slices = InitialSlices
    /\ limbVisibility = "voxel"
    /\ inflation = 0
    /\ smoothNormals = TRUE
    /\ socket = NULL
    /\ socketThickness \in SocketThicknesses
    /\ socketUseConvexHull \in BOOLEAN
    /\ primitives \in SocketPrimitiveLists
    /\ selectedPrimitiveId = NoId
    /\ now = 0
    /\ voxelInput = <<>>
    /\ voxelMap = <<>>
    /\ limbGeometry \in SocketLimbs
    /\ utilCall = NoCall
    /\ isDrawing = FALSE
    /\ drawnPoints = <<>>
    /\ lastOp = Did("init")

NextSocket ==
    \E throwing \in ThrowingSets :
        /\ \A t \in throwing : t[1] = "primitive" => t[2] <= Len(primitives)
        /\ CallGenerateSocket(throwing)

SpecSocket == InitSocket /\ [][NextSocket]_vars

\* The editor of the top slice, on a slice of at most MaxDrawn active cells, with
\* strokes of at most MaxStroke cells, and its Clear button. During a stroke the
\* pointer is in the stroke's last cell and enters one of the cells around it.
MaxStroke == MaxDrawn + 1

EditorGrids ==
    {[r \in Cells |-> [c \in Cells |-> <<r, c>> \in active]] :
        active \in SubsetsUpTo(Cells \X Cells, MaxDrawn)}

InitEditor ==
    /\ slices \in {[InitialSlices EXCEPT ![1].grid = grid] : grid \in EditorGrids}
    /\ limbVisibility = "voxel"
    /\ inflation = 0
    /\ smoothNormals = TRUE
    /\ socket = NULL
    /\ socketThickness = 5
    /\ socketUseConvexHull = TRUE
    /\ primitives = <<>>
    /\ selectedPrimitiveId = NoId
    /\ now = 0
    /\ voxelInput = <<>>
    /\ voxelMap = <<>>
    /\ limbGeometry = NoGeometry
    /\ utilCall = NoCall
    /\ isDrawing = FALSE
    /\ drawnPoints = <<>>
    /\ lastOp = Did("init")

PointerCanEnter(row, col) ==
    isDrawing =>
        LET last == drawnPoints[Len(drawnPoints)]
        IN  /\ Len(drawnPoints) < MaxStroke
            /\ <<row, col>> # <<last.row, last.col>>
            /\ Abs(row - last.row) <= 1
            /\ Abs(col - last.col) <= 1

\* A button goes down in the cell the pointer is in.
PointerIn(row, col) ==
    isDrawing => drawnPoints[Len(drawnPoints)] = [row |-> row, col |-> col]

NextEditor ==
    \/ \E row \in Cells, col \in Cells : PointerIn(row, col) /\ handleMouseDown(row, col)
    \/ \E row \in Cells, col \in Cells :
           PointerCanEnter(row, col) /\ handleMouseEnter(row, col)
    \/ handleMouseUp
    \/ handleMouseLeave
    \/ ClearSlice(EditorSliceId)

SpecEditor == InitEditor /\ [][NextEditor]_vars

\* generateSocket on primitives the control panel cannot make but the store accepts
\* (updatePrimitive merges any fields): an operation and a type outside the known
\* ones, beside a known primitive.
UnknownPrimitives ==
    { [NewPrimitive("cube", 5) EXCEPT !.position = <<2 * Grain, 2 * Grain, 0>>,
                                      !.scale = <<2 * Grain, 2 * Grain, 2 * Grain>>,
                                      !.operation = "difference"],
      [NewPrimitive("cone", 6) EXCEPT !.position = <<Grain, 3 * Grain, 0>>,
                                      !.scale = <<2 * Grain, 4 * Grain, 2 * Grain>>],
      [NewPrimitive("sphere", 3) EXCEPT !.position = <<2 * Grain, 0, 0>>,
                                        !.scale = <<4 * Grain, 4 * Grain, 4 * Grain>>,
                                        !.operation = "subtract"] }

UnknownPrimitiveLists ==
    {ps \in ListsUpTo(UnknownPrimitives, MaxPrims) :
        \A i, j \in 1 .. Len(ps) : i # j => ps[i] # ps[j]}

InitSocketUnknown ==
    /\ slices = InitialSlices
    /\ limbVisibility = "voxel"
    /\ inflation = 0
    /\ smoothNormals = TRUE
    /\ socket = NULL
    /\ socketThickness \in SocketThicknesses
    /\ socketUseConvexHull \in BOOLEAN
    /\ primitives \in UnknownPrimitiveLists
    /\ selectedPrimitiveId = NoId
    /\ now = 0
    /\ voxelInput = <<>>
    /\ voxelMap = <<>>
    /\ limbGeometry \in SocketLimbs
    /\ utilCall = NoCall
    /\ isDrawing = FALSE
    /\ drawnPoints = <<>>
    /\ lastOp = Did("init")

SpecSocketUnknown == InitSocketUnknown /\ [][NextSocket]_vars

\* expandPoints on lists of at most MaxPoints points of a lattice in the plane
\* z = 0, moved by 0.3 or 0.5.
ExpandLattice == {<<x, y, 0>> : x \in {-3 * Grain, 0, 3 * Grain}, y \in {0, 4 * Grain}}
ExpandInputs == ListsUpTo(ExpandLattice, MaxPoints) \ {<<>>}
ExpandAmounts == {3 * Grain, 5 * Grain}

NextExpand ==
    /\ lastOp.op = "init"
    /\ \E points \in ExpandInputs, amount \in ExpandAmounts :
           CallExpandPoints(points, amount)

SpecExpand == Init /\ [][NextExpand]_vars

\* getConvexHull on at most MaxHullPoints cells of a grid of side GridSize + 1, as
\* the editors collect them: row by row, the other way round, or twice over.
HullSide == GridSize + 1
CellAt(i) == [row |-> i \div HullSide, col |-> i % HullSide]

\* The ways to pick at most k cells, as rising lists of their row-by-row numbers.
RECURSIVE RowByRowPicks(_)
RowByRowPicks(k) ==
    IF k = 0 THEN {<<>>}
    ELSE LET shorter == RowByRowPicks(k - 1)
             longer == {pick \in shorter \X (0 .. (HullSide * HullSide - 1)) :
                           /\ Len(pick[1]) = k - 1
                           /\ k = 1 \/ pick[1][k - 1] < pick[2]}
         IN  shorter \cup {Append(pick[1], pick[2]) : pick \in longer}

HullInputs ==
    LET chosen == {[k \in 1 .. Len(pick) |-> CellAt(pick[k])] :
                      pick \in RowByRowPicks(MaxHullPoints)}
    IN  chosen \cup {Reversed(ps) : ps \in chosen} \cup {ps \o ps : ps \in chosen}

NextHull ==
    /\ lastOp.op = "init"
    /\ \E points \in HullInputs : CallGetConvexHull(points)

SpecHull == Init /\ [][NextHull]_vars

\* fillPolygon(hull, 20) on the hulls getConvexHull returns, as the editors call it,
\* for the cells of HullInputs and for the corners of the square of rows and
\* columns 5 to 15.
SquareCorners ==
    << [row |-> 5, col |-> 5], [row |-> 5, col |-> 15],
       [row |-> 15, col |-> 15], [row |-> 15, col |-> 5] >>

NextFill ==
    \/ /\ lastOp.op = "init"
       /\ \E points \in HullInputs \cup {SquareCorners} : CallGetConvexHull(points)
    \/ /\ lastOp.op = "getConvexHull"
       /\ CallFillPolygon(utilCall.result, EditorGridSize)

SpecFill == Init /\ [][NextFill]_vars

\* One cube of the table-driven mesher, on every content of the 2 x 2 cells of the
\* front grid and of the side grid its corners read.
CubeCells == [0 .. 1 -> [0 .. 1 -> BOOLEAN]]

NextCubes ==
    /\ lastOp.op = "init"
    /\ \E front \in CubeCells, side \in CubeCells : CallMarchCube(front, side)

SpecCubes == Init /\ [][NextCubes]_vars

(* ------------------------------- claims ------------------------------- *)
AllGridsEmpty == \A k \in 1 .. Len(slices) : ActiveCells(slices[k].grid) = {}
SlicesActive == {k \in 1 .. Len(slices) : ActiveCells(slices[k].grid) # {}}
MesherOps == {"generateLimbGeometry", "generateLimbGeometrySmooth"}

\* C1: after any setSliceCell or clearSlice call, whatever the state before it, the
\* cached socket mesh is null.
C1_SliceEditClearsSocket ==
    lastOp.op \in {"setSliceCell", "clearSlice"} => socket = NULL

\* C1 happens: a grid edit found a socket stored and left none.
C1_Witness ==
    /\ lastOp.op = "setSliceCell"
    /\ lastOp.hadSocket
    /\ socket = NULL
    /\ ~AllGridsEmpty

\* C2: after setSocketThickness or setSocketUseConvexHull, called while a socket
\* mesh is stored, the stored socket mesh is null.
C2_SocketConfigClearsSocket ==
    lastOp.op \in {"setSocketThickness", "setSocketUseConvexHull"} => socket = NULL

\* C3: after addPrimitive, updatePrimitive or deletePrimitive, called while a socket
\* mesh is stored, the stored socket mesh is null.
C3_PrimitiveEditClearsSocket ==
    lastOp.op \in {"addPrimitive", "updatePrimitive", "deletePrimitive"} => socket = NULL

\* C4: after any sequence of addPrimitive, updatePrimitive and deletePrimitive calls,
\* two of them without a clock tick in between included, the ids of the listed
\* primitives are pairwise distinct.
C4_PrimitiveIdsDistinct ==
    \A i, j \in 1 .. Len(primitives) : i # j => primitives[i].id # primitives[j].id

\* C5: immediately after addPrimitive, selectedPrimitiveId is the id of the primitive
\* just appended to the list, whatever was selected before.
C5_AddSelectsNewPrimitive ==
    lastOp.op = "addPrimitive" =>
        /\ Len(primitives) > 0
        /\ selectedPrimitiveId = primitives[Len(primitives)].id

\* C5 happens: a second primitive was added while the first was selected, and the
\* selection moved to it.
C5_Witness ==
    /\ lastOp.op = "addPrimitive"
    /\ Len(primitives) = 2
    /\ lastOp.prevSelected = primitives[1].id
    /\ selectedPrimitiveId = primitives[2].id
    /\ selectedPrimitiveId # lastOp.prevSelected

\* C6: deletePrimitive(id) leaves selectedPrimitiveId null when it was id before the
\* call, and unchanged when it differed from id.
C6_DeleteClearsOwnSelection ==
    [][\A id \in ListedIds \cup {UnknownId} :
          DeletePrimitive(id) =>
              /\ selectedPrimitiveId = id => selectedPrimitiveId' = NoId
              /\ selectedPrimitiveId # id => selectedPrimitiveId' = selectedPrimitiveId]_vars

\* C6 happens: the selected primitive was deleted while another stayed listed, and
\* the selection is null.
C6_Witness ==
    /\ lastOp.op = "deletePrimitive"
    /\ lastOp.prevSelected # NoId
    /\ lastOp.prevSelected \notin ListedIds
    /\ Len(primitives) > 0
    /\ selectedPrimitiveId = NoId

\* C7: selectedPrimitiveId is null or the id of exactly one listed primitive.
C7_SelectionNamesOnePrimitive ==
    \/ selectedPrimitiveId = NoId
    \/ Cardinality({k \in 1 .. Len(primitives) : primitives[k].id = selectedPrimitiveId}) = 1

\* C8: with no active cell in any slice, the voxel mesher and the smooth mesher both
\* return a geometry (never null) of exactly one vertex, the origin, and no triangle.
C8_EmptySkeletonSentinel ==
    (lastOp.op \in MesherOps /\ AllGridsEmpty) =>
        /\ limbGeometry.kind = "BufferGeometry"
        /\ limbGeometry.position = << <<0, 0, 0>> >>
        /\ TriangleCount(limbGeometry) = 0

\* C8 happens: the smooth mesher ran on empty grids and returned the sentinel.
C8_Witness ==
    /\ lastOp.op = "generateLimbGeometrySmooth"
    /\ AllGridsEmpty
    /\ voxelMap = <<>>
    /\ Len(limbGeometry.position) = 1

\* C9: with an active cell in at least one slice, whatever the other slices hold, the
\* voxel mesh has at least one cuboid (8 vertices, 12 triangles); the sentinel is
\* returned only when every grid is empty.
C9_ActiveSliceGivesCuboid ==
    lastOp.op = "generateLimbGeometry" =>
        /\ ~AllGridsEmpty =>
              /\ limbGeometry.kind = "BufferGeometry"
              /\ Len(limbGeometry.position) >= 8
              /\ TriangleCount(limbGeometry) >= 12
        /\ limbGeometry = EmptyGeometry => AllGridsEmpty

\* C9 happens: the top and the bottom slice are active with empty slices between
\* them, and the voxel mesh has cuboids.
C9_Witness ==
    /\ lastOp.op = "generateLimbGeometry"
    /\ SlicesActive = {1, Len(slices)}
    /\ Len(limbGeometry.position) >= 8
    /\ TriangleCount(limbGeometry) >= 12

\* C10: with exactly one active slice, the skeleton has exactly one point per active
\* cell of that slice, each at the slice's height times the height scale, and no
\* other point.
C10_SingleSliceSkeleton ==
    (lastOp.op \in MesherOps /\ Cardinality(SlicesActive) = 1) =>
        LET k == CHOOSE k \in SlicesActive : TRUE
            cells == ActiveCells(slices[k].grid)
        IN  /\ Len(voxelMap) = Cardinality(cells)
            /\ {voxelMap[i] : i \in 1 .. Len(voxelMap)} =
                   {[row |-> rc[1], col |-> rc[2],
                     y |-> slices[k].height * GridSize * CellSize] : rc \in cells}

\* C10 happens: one slice with two active cells was meshed into a two-point skeleton.
C10_Witness ==
    /\ lastOp.op \in MesherOps
    /\ Cardinality(SlicesActive) = 1
    /\ \E k \in SlicesActive : Cardinality(ActiveCells(slices[k].grid)) = 2
    /\ Len(voxelMap) = 2

SkeletonPoints == {voxelMap[i] : i \in 1 .. Len(voxelMap)}

\* C11: two calls of buildOccupiedVoxels on arrays that are permutations of the
\* same slices return the same set of skeleton points.
C11_SkeletonIgnoresSliceOrder ==
    [][(lastOp.op = "buildOccupiedVoxels" /\ lastOp'.op = "buildOccupiedVoxels") =>
          SkeletonPoints' = SkeletonPoints]_vars

\* C11 happens: three active slices and an empty one were handed over with the
\* middle one first, and the loft ran over them.
C11_Witness ==
    /\ lastOp.op = "buildOccupiedVoxels"
    /\ Cardinality(SlicesActive) = 3
    /\ voxelInput # slices
    /\ ActiveCells(voxelInput[1].grid) # {}
    /\ \E i, j \in 2 .. Len(voxelInput) :
           /\ ActiveCells(voxelInput[i].grid) # {}
           /\ ActiveCells(voxelInput[j].grid) # {}
           /\ voxelInput[i].height > voxelInput[1].height
           /\ voxelInput[1].height > voxelInput[j].height
    /\ Len(voxelMap) > Cardinality(SlicesActive)

\* The skeleton point of a cell of slice k at the slice's own scaled height.
AnchorPoint(k, rc) ==
    [row |-> rc[1], col |-> rc[2], y |-> slices[k].height * GridSize * CellSize]

\* C12: with two or more active slices, every active cell of every active slice is
\* in the skeleton at that slice's own scaled height.
C12_EveryActiveCellAnchored ==
    (lastOp.op \in MesherOps /\ Cardinality(SlicesActive) >= 2) =>
        \A k \in SlicesActive : \A rc \in ActiveCells(slices[k].grid) :
            AnchorPoint(k, rc) \in SkeletonPoints

\* C12 happens: the upper of two active slices has one cell and the lower has that
\* cell and another, which no chain from above reaches; it is in the skeleton.
C12_Witness ==
    /\ lastOp.op \in MesherOps
    /\ SlicesActive = {1, 2}
    /\ ActiveCells(slices[1].grid) = {<<0, 0>>}
    /\ ActiveCells(slices[2].grid) = {<<0, 0>>, <<1, 1>>}
    /\ AnchorPoint(2, <<1, 1>>) \in SkeletonPoints

\* The corner of least coordinates of the cuboid the voxel mesher draws for a
\* skeleton point, in thousandths.
CuboidCorner(voxel) ==
    << ((2 * voxel.col - GridSize) * CellSize * Milli) \div 4 - (CellSize * Milli) \div 4,
       voxel.y - (CellSize * Milli) \div 4,
       ((2 * voxel.row - GridSize) * CellSize * Milli) \div 4 - (CellSize * Milli) \div 4 >>

\* C13: no two points of the skeleton share a key (rounded row, rounded col, height
\* rounded to thousandths), and the voxel mesh has exactly one cuboid per key.
C13_SkeletonDeduplicated ==
    /\ lastOp.op \in MesherOps =>
           \A i, j \in 1 .. Len(voxelMap) : i # j => voxelMap[i] # voxelMap[j]
    /\ (lastOp.op = "generateLimbGeometry" /\ Len(voxelMap) > 0) =>
           /\ Len(limbGeometry.position) = 8 * Cardinality(SkeletonPoints)
           /\ TriangleCount(limbGeometry) = 12 * Cardinality(SkeletonPoints)
           /\ \A i \in 1 .. Len(voxelMap) :
                  limbGeometry.position[8 * (i - 1) + 1] = CuboidCorner(voxelMap[i])

\* C13 happens: the chains of a loft passed through the same point more than once,
\* and the mesh has one cuboid for each point kept.
C13_Witness ==
    /\ lastOp.op = "generateLimbGeometry"
    /\ Cardinality(SlicesActive) >= 2
    /\ Len(AddVoxelCalls(slices, GridSize, GridSize * CellSize)) > Len(voxelMap)
    /\ Len(limbGeometry.position) = 8 * Len(voxelMap)

\* C14: generateSocket on a limb mesh of fewer than 4 vertices (the single vertex
\* of the empty limb among them) returns null after logging a warning; it does
\* not throw and makes no hull and no boolean call.
C14_FewVerticesGiveNull ==
    ( /\ utilCall.fn = "generateSocket"
      /\ limbGeometry # NoGeometry
      /\ Len(limbGeometry.position) < 4 )
    => /\ utilCall.result.outcome = "null"
       /\ utilCall.result.steps = <<>>
       /\ Len(utilCall.result.warnings) = 1

C14_Witness ==
    /\ utilCall.fn = "generateSocket"
    /\ limbGeometry = EmptyGeometry
    /\ utilCall.args.throwing # {}
    /\ utilCall.result.outcome = "null"
    /\ utilCall.result.warnings # <<>>

\* The last generateSocket call, and what it returns on the same limb and settings
\* for another primitive list when no library call throws.
SocketCalled == utilCall.fn = "generateSocket"
SocketFor(prims) ==
    generateSocket(limbGeometry, socketThickness * Grain, socketUseConvexHull, prims, {})

\* One boolean operation of a primitive on a shell.
BooleanOf(shell, primitive) ==
    IF primitive.operation = "union" THEN shell \cup createPrimitiveMesh(primitive)
    ELSE IF primitive.operation = "subtract" THEN shell \ createPrimitiveMesh(primitive)
    ELSE shell \cap createPrimitiveMesh(primitive)

RECURSIVE LeftFold(_, _, _)
LeftFold(shell, prims, n) ==
    IF n = 0 THEN shell ELSE BooleanOf(LeftFold(shell, prims, n - 1), prims[n])

\* C15: when no call throws, the socket is the left fold of the primitives'
\* boolean operations, in list order, from the top-cut shell (the socket of the
\* empty list).
C15_PrimitivesFoldLeft ==
    ( /\ SocketCalled
      /\ utilCall.args.throwing = {}
      /\ utilCall.result.outcome = "geometry" )
    => utilCall.result.cells = LeftFold(SocketFor(<<>>).cells, primitives, Len(primitives))

\* Two primitives with different operations whose exchange changes the socket.
C15_Witness ==
    /\ SocketCalled
    /\ utilCall.args.throwing = {}
    /\ utilCall.result.outcome = "geometry"
    /\ Len(primitives) = 2
    /\ primitives[1].operation # primitives[2].operation
    /\ SocketFor(<<primitives[2], primitives[1]>>).cells # utilCall.result.cells

\* The list without its n-th primitive.
WithoutPrimitive(prims, n) == SubSeq(prims, 1, n - 1) \o SubSeq(prims, n + 1, Len(prims))

\* C16: when the boolean operation of one primitive throws, that primitive alone is
\* skipped, with a warning naming it: the socket is the one of the list without it.
C16_FailingPrimitiveSkipped ==
    \A n \in 1 .. Len(primitives) :
        (SocketCalled /\ utilCall.args.throwing = {<<"primitive", n>>}
                      /\ Len(limbGeometry.position) >= 4)
        => /\ utilCall.result.outcome = "geometry"
           /\ utilCall.result.cells = SocketFor(WithoutPrimitive(primitives, n)).cells
           /\ utilCall.result.warnings =
                  << <<"CSG operation failed for primitive", primitives[n].id>> >>

\* The first of two primitives failed, and the socket differs from both the
\* top-cut shell and the socket of the whole list.
C16_Witness ==
    /\ SocketCalled
    /\ utilCall.args.throwing = {<<"primitive", 1>>}
    /\ Len(primitives) = 2
    /\ utilCall.result.outcome = "geometry"
    /\ utilCall.result.cells # SocketFor(<<>>).cells
    /\ utilCall.result.cells # SocketFor(primitives).cells

\* C17: every failure inside generateSocket is reported as null, no exception
\* leaves it; a failing inner-from-outer subtraction or top cut returns null.
C17_FailuresReportedAsNull ==
    SocketCalled =>
        /\ utilCall.result.outcome # "throws"
        /\ (utilCall.args.throwing \cap {<<"shell", 0>>, <<"cut", 0>>} # {}
                /\ limbGeometry # NoGeometry /\ Len(limbGeometry.position) >= 4)
           => utilCall.result.outcome = "null"

\* A thousandth: the tolerance on a height.
HeightEpsilon == Milli \div 1000

\* C18: whatever the primitives, the socket generateSocket returns has no point
\* higher than topY - cutOffset + epsilon, topY the highest limb vertex.
C18_NothingAboveTopCut ==
    (SocketCalled /\ utilCall.result.outcome = "geometry")
    => \A q \in utilCall.result.cells :
           q[2] <= findTopY(limbGeometry) - CutOffset + HeightEpsilon

\* Without primitives the top-cut shell itself has no point above the cut.
TopCutShellBelowCut ==
    (SocketCalled /\ utilCall.result.outcome = "geometry" /\ primitives = <<>>)
    => \A q \in utilCall.result.cells :
           q[2] <= findTopY(limbGeometry) - CutOffset + HeightEpsilon

\* Distances are compared up to the rounding of the thousandths.
DistanceTolerance == 2 * HeightEpsilon

\* The i-th point after expandPoints lies on the ray from the centroid through the
\* i-th point before (its offset is the old offset stretched, up to rounding), and
\* is amount farther from the centroid.
OnRayAndFarther(points, amount, moved, i) ==
    LET centroid == Centroid(points)
        before == subVectors(points[i], centroid)
        after == subVectors(moved[i], centroid)
        far == LengthOf(before)
    IN  /\ Abs(LengthOf(after) - far - amount) <= DistanceTolerance
        /\ \A axis \in 1 .. 3 :
               Abs(after[axis] * far - before[axis] * (far + amount))
                   <= DistanceTolerance * (far + amount)

ExpandedOffCentroid ==
    utilCall.fn = "expandPoints"
    => \A i \in 1 .. Len(utilCall.args.points) :
           utilCall.args.points[i] # Centroid(utilCall.args.points)
           => OnRayAndFarther(utilCall.args.points, utilCall.args.amount, utilCall.result, i)

\* p lies on the segment from a to b.
OnSegment(a, b, p) ==
    /\ cross(a, b, p) = 0
    /\ (a.row <= p.row /\ p.row <= b.row) \/ (b.row <= p.row /\ p.row <= a.row)
    /\ (a.col <= p.col /\ p.col <= b.col) \/ (b.col <= p.col /\ p.col <= a.col)

\* p lies on an edge of the closed polygon, or a ray from p towards greater col
\* crosses an odd number of its edges.
InsideOrOn(polygon, p) ==
    LET n == Len(polygon)
        After(i) == polygon[(i % n) + 1]
        Crossed(i) ==
            /\ (polygon[i].row > p.row) # (After(i).row > p.row)
            /\ IF After(i).row > polygon[i].row
               THEN cross(polygon[i], After(i), p) > 0
               ELSE cross(polygon[i], After(i), p) < 0
    IN  /\ n > 0
        /\ \/ \E i \in 1 .. n : OnSegment(polygon[i], After(i), p)
           \/ Cardinality({i \in 1 .. n : Crossed(i)}) % 2 = 1

\* C20: every point given to getConvexHull lies inside or on the polygon it returns.
C20_HullContainsInput ==
    utilCall.fn = "getConvexHull"
    => \A i \in 1 .. Len(utilCall.args.points) :
           InsideOrOn(utilCall.result, utilCall.args.points[i])

\* A call on four cells one of which lies strictly inside the returned triangle.
C20_Witness ==
    /\ utilCall.fn = "getConvexHull"
    /\ Len(utilCall.args.points) = 4
    /\ Len(utilCall.result) = 3
    /\ \E i \in 1 .. 4 :
           /\ InsideOrOn(utilCall.result, utilCall.args.points[i])
           /\ \A k \in 1 .. 3 :
                  ~OnSegment(utilCall.result[k], utilCall.result[(k % 3) + 1],
                             utilCall.args.points[i])

\* The last getConvexHull call; no point is twice in a list.
HullCalled == utilCall.fn = "getConvexHull"
EachOnce(ps) == \A i, j \in 1 .. Len(ps) : i # j => ps[i] # ps[j]

\* The turn at each vertex of the closed polygon, from the edge into it to the edge
\* out of it.
Turns(polygon) ==
    LET n == Len(polygon)
    IN  {cross(polygon[i], polygon[(i % n) + 1], polygon[((i + 1) % n) + 1]) : i \in 1 .. n}

\* C21: the polygon getConvexHull returns for a set of grid points is convex: the
\* cross products of consecutive edges, taken cyclically, are all positive or all
\* negative (none is zero: no vertex in line with its neighbours), and no vertex
\* is repeated.
C21_HullConvex ==
    (HullCalled /\ EachOnce(utilCall.args.points))
    => /\ EachOnce(utilCall.result)
       /\ Len(utilCall.result) >= 3
          => \/ \A t \in Turns(utilCall.result) : t > 0
             \/ \A t \in Turns(utilCall.result) : t < 0

\* Four cells, three of them in line, and the triangle returned for them.
C21_Witness ==
    /\ HullCalled
    /\ EachOnce(utilCall.args.points)
    /\ Len(utilCall.args.points) = 4
    /\ Len(utilCall.result) = 3
    /\ \E i, j, k \in 1 .. 4 :
           /\ i < j /\ j < k
           /\ cross(utilCall.args.points[i], utilCall.args.points[j],
                    utilCall.args.points[k]) = 0

\* The points of a list as a set.
PointSet(ps) == {ps[i] : i \in 1 .. Len(ps)}

\* C22: when fewer than 3 different points are given to getConvexHull, however
\* often each is repeated, the result is those points, each once, in the order of
\* their first occurrence.
C22_FewUniquePointsReturnedOnce ==
    (HullCalled /\ Cardinality(PointSet(utilCall.args.points)) < 3)
    => utilCall.result = UniquePoints(utilCall.args.points)

\* With 3 entries or more the repeated entries are dropped.
FewUniqueOfThreeEntriesReturnedOnce ==
    ( /\ HullCalled
      /\ Cardinality(PointSet(utilCall.args.points)) < 3
      /\ Len(utilCall.args.points) >= 3 )
    => utilCall.result = UniquePoints(utilCall.args.points)

\* C23: fillPolygon fills the closed polygon, its boundary rows and columns too:
\* for the square of corners (5,5), (5,15), (15,15), (15,5) on the 20 x 20 grid it
\* returns the 121 cells of rows and columns 5 to 15, each once.
C23_SquareFilledWithBoundary ==
    ( /\ utilCall.fn = "fillPolygon"
      /\ PointSet(utilCall.args.points) = PointSet(SquareCorners)
      /\ Len(utilCall.args.points) = 4 )
    => /\ PointSet(utilCall.result) = {[row |-> r, col |-> c] : r \in 5 .. 15, c \in 5 .. 15}
       /\ Len(utilCall.result) = 121

\* What fillPolygon does return for that square: rows 5 to 14 only, 110 cells.
SquareFilledBelowLastRow ==
    ( /\ utilCall.fn = "fillPolygon"
      /\ PointSet(utilCall.args.points) = PointSet(SquareCorners)
      /\ Len(utilCall.args.points) = 4 )
    => /\ PointSet(utilCall.result) = {[row |-> r, col |-> c] : r \in 5 .. 14, c \in 5 .. 15}
       /\ Len(utilCall.result) = 110

\* For the t-th triangle of the voxel mesh in limbGeometry: the product of its
\* right-hand normal (v1 - v0) x (v2 - v0) with the offset of v0 from the centre of
\* its cuboid (8 times over): positive when the triangle faces away from the
\* centre, negative when it faces the centre.
Outwardness(t) ==
    LET Vertex(k) == limbGeometry.position[limbGeometry.index[3 * (t - 1) + k] + 1]
        cube == limbGeometry.index[3 * (t - 1) + 1] \div 8
        corners == SumOf([k \in 1 .. 8 |-> limbGeometry.position[8 * cube + k]], 8)
        a == subVectors(Vertex(2), Vertex(1))
        b == subVectors(Vertex(3), Vertex(1))
        normal == <<a[2] * b[3] - a[3] * b[2], a[3] * b[1] - a[1] * b[3],
                    a[1] * b[2] - a[2] * b[1]>>
        out == subVectors(<<8 * Vertex(1)[1], 8 * Vertex(1)[2], 8 * Vertex(1)[3]>>, corners)
    IN  (normal[1] \div Milli) * out[1] + (normal[2] \div Milli) * out[2]
            + (normal[3] \div Milli) * out[3]

VoxelMeshDrawn == lastOp.op = "generateLimbGeometry" /\ limbGeometry.indexed

\* C24: each of the 12 triangles createCube emits for a cuboid faces outward: its
\* right-hand normal points away from the cuboid's centre.
C24_CubeTrianglesFaceOutward ==
    VoxelMeshDrawn
    => \A t \in 1 .. TriangleCount(limbGeometry) : Outwardness(t) > 0

\* The triangles do share one orientation: every one of them faces the centre.
CubeTrianglesFaceInward ==
    VoxelMeshDrawn
    => \A t \in 1 .. TriangleCount(limbGeometry) : Outwardness(t) < 0

\* C25: MARCHING_CUBES_TABLE has 256 entries, so that for every cube index 1 to
\* 254 the mesher computes the lookup gives a triangle list and it does not fail.
C25_TableCoversEveryCubeIndex ==
    (utilCall.fn = "marchCube" /\ utilCall.result.cubeIndex \in 1 .. 254)
    => /\ Len(MARCHING_CUBES_TABLE) = 256
       /\ utilCall.result.outcome = "triangles"

\* The configurations the table has are meshed without failure.
ListedCubeIndexMeshed ==
    ( /\ utilCall.fn = "marchCube"
      /\ utilCall.result.cubeIndex \in 1 .. (Len(MARCHING_CUBES_TABLE) - 1) )
    => utilCall.result.outcome = "triangles"

\* The cells a step changes, as <<place of the slice, row, col>>.
ChangedCells ==
    {t \in (1 .. Len(slices)) \X Cells \X Cells :
        slices'[t[1]].grid[t[2]][t[3]] # slices[t[1]].grid[t[2]][t[3]]}

RECURSIVE IsSubsequence(_, _)
IsSubsequence(a, b) ==
    IF a = <<>> THEN TRUE
    ELSE IF b = <<>> THEN FALSE
    ELSE IF Head(a) = Head(b) THEN IsSubsequence(Tail(a), Tail(b))
    ELSE IsSubsequence(a, Tail(b))

\* How often p stands in ps.
Occurrences(ps, p) == Cardinality({k \in 1 .. Len(ps) : ps[k] = p})

\* The step is a call of the store action op (the clock's tick leaves lastOp alone).
StoreStep(op) == lastOp'.op = op /\ now' = now

KnownTypes == {"sphere", "cube", "cylinder"}

\* The list with its n-th primitive turned into a cube.
AsCube(prims, n) == [prims EXCEPT ![n].type = "cube"]

\* C30: a primitive whose operation is none of union, subtract, intersect leaves
\* the shell as it is and logs nothing: the socket and the warnings are those of
\* the list without it. A primitive whose type is none of sphere, cube, cylinder
\* is applied as the cube of its position and scale.
C30_UnknownOperationSkippedUnknownTypeCube ==
    (SocketCalled /\ utilCall.args.throwing = {} /\ utilCall.result.outcome = "geometry") =>
        \A n \in 1 .. Len(primitives) :
            /\ primitives[n].operation \notin Operations =>
                  /\ utilCall.result.cells
                     = SocketFor(WithoutPrimitive(primitives, n)).cells
                  /\ utilCall.result.warnings = <<>>
            /\ primitives[n].type \notin KnownTypes =>
                  utilCall.result.cells = SocketFor(AsCube(primitives, n)).cells

\* A socket of a primitive of unknown type, which has changed the shell, and one of
\* unknown operation, which any of the three operations would have made change it.
C30_Witness ==
    /\ SocketCalled
    /\ utilCall.args.throwing = {}
    /\ utilCall.result.outcome = "geometry"
    /\ Len(primitives) = 2
    /\ primitives[1].type \notin KnownTypes
    /\ primitives[2].operation \notin Operations
    /\ utilCall.result.cells # SocketFor(<<>>).cells
    /\ \A o \in Operations :
           SocketFor(<<primitives[1], [primitives[2] EXCEPT !.operation = o]>>).cells
           # utilCall.result.cells

\* The cells of the stroke in progress.
StrokeCells == {drawnPoints[i] : i \in 1 .. Len(drawnPoints)}
EditorCells == {[row |-> r, col |-> c] : r \in Cells, c \in Cells}

\* The stroke is degenerate: fewer than three different cells, or all in one line.
DegenerateStroke ==
    \A a \in StrokeCells, b \in StrokeCells, c \in StrokeCells : cross(a, b, c) = 0

\* Nothing is active in the slice but cells of the stroke.
OtherwiseEmpty == \A cell \in EditorCells : EditorGrid[cell.row][cell.col] => cell \in StrokeCells

\* C26: after a mouse-down or mouse-enter of a degenerate stroke (one cell, or cells
\* in one line) on an otherwise empty slice, every cell the pointer passed over is
\* occupied.
C26_DegenerateStrokeFilled ==
    ( /\ lastOp.op \in {"handleMouseDown", "handleMouseEnter"}
      /\ isDrawing
      /\ DegenerateStroke
      /\ OtherwiseEmpty )
    => \A cell \in StrokeCells : EditorGrid[cell.row][cell.col]

\* The events of the editor's grid.
EditorEvents == {"handleMouseDown", "handleMouseEnter", "handleMouseUp", "handleMouseLeave"}

\* C27: an event of the editor only adds material: every cell that is true before a
\* mouse-down, mouse-enter, mouse-up or mouse-leave is true after it, and a
\* mouse-enter while no stroke is in progress changes no cell.
C27_StrokeOnlyAdds ==
    [][lastOp'.op \in EditorEvents =>
          /\ \A t \in SliceCells : slices[t[1]].grid[t[2]][t[3]] => slices'[t[1]].grid[t[2]][t[3]]
          /\ (lastOp'.op = "handleMouseEnter" /\ ~isDrawing) => slices' = slices]_vars

\* A stroke has entered a cell and left more cells active than were drawn before it.
C27_Witness ==
    /\ lastOp.op = "handleMouseEnter"
    /\ isDrawing
    /\ ActiveCount(slices) > MaxDrawn
====
